---- MODULE Spec2Model ----
(***************************************************************************)
(* Model of the AFC and PSM sync daemons: the reconciliation workers and   *)
(* the main thread that starts them                                        *)
(* (src/daemons/afc_sync_daemon.py, src/daemons/psm_sync_daemon.py).       *)
(*                                                                         *)
(* Python strings are sequences of one-character strings, so that what    *)
(* set(<str>) and <str>.split(',') do to a configuration value is          *)
(* computed, not assumed.  A zone (VRF) name is such a string; a VLAN tag  *)
(* is an integer.                                                          *)
(***************************************************************************)
EXTENDS Integers, Sequences, FiniteSets, TLC

\* Bound: the number of HTTP calls that fail in one behaviour.
MaxFailures == 1

\* Zone / VRF names and VLAN tags of the bounded universe.
Names == {<<"a">>, <<"a", "b">>}
Tags == {1, 2}
\* Fabric names; the PSM daemon has one implicit scope (its tenant).
FabricX == <<"x">>
FabricY == <<"y">>
PsmScope == <<"p">>
\* Values of the configuration keys, as written in the file ("" = key absent).
EnabledValues == {<<>>, <<"0">>, <<"1">>}
ReservedZoneValues == {<<>>, <<"a">>, <<"a", "b">>}
ReservedVlanValues == {<<"1">>}

VARIABLES
    daemon,     \* "AFC" or "PSM": the daemon this process runs
    cfgFile,    \* the configuration file: target id -> section, as written
    secret,     \* TRUE iff the Proxmox token secret is in the environment
    cfgPath,    \* what open(CONFIG_FILE_PATH) finds: "present", "missing", "unreadable"
    shape,      \* the shape of the servers' response bodies: "ok" or what is wrong
    pve,        \* the source of truth: [zones, vnets]
    afcFabrics, \* the fabrics the AFC controller knows
    fabric,     \* target id -> scope -> [vrfs, vlans]: the controllers' state
    w,          \* target id -> the local variables of its worker thread
    log,        \* target id -> the HTTP calls and reports of the current cycle
    fails,      \* number of failed HTTP calls so far
    cyc,        \* target id -> scope -> what the current cycle fetched and planned
    prev,       \* target id -> scope -> summary of the previous cycle
    stop_event, \* the threading.Event main shares with every worker
    sup,        \* the locals of main: its position and the targets of the tick
    threads,    \* main's registry: target id -> the Thread object it holds
    nlive       \* target id -> the number of live worker threads bound to it

vars == <<daemon, cfgFile, secret, cfgPath, shape, pve, afcFabrics, fabric, w, log, fails, cyc, prev,
          stop_event, sup, threads, nlive>>

\* What only main and the life of the threads change.
sv == <<stop_event, sup, threads, nlive>>

-----------------------------------------------------------------------------
(* Python helpers *)

\* set(s) for a str s: the set of its characters, each a one-character str.
PySetOfStr(s) == { <<s[i]>> : i \in DOMAIN s }

\* n == s for an int n and a str s: an int never equals a str.
PyEqIntStr(n, s) == FALSE

\* n in S for an int n and a set S of str.
PyIntInStrSet(n, S) == \E s \in S : PyEqIntStr(n, s)

RECURSIVE SplitFrom(_, _, _)
SplitFrom(s, cur, acc) ==
    IF s = <<>> THEN Append(acc, cur)
    ELSE IF Head(s) = "," THEN SplitFrom(Tail(s), <<>>, Append(acc, cur))
    ELSE SplitFrom(Tail(s), Append(cur, Head(s)), acc)

\* s.split(',')
PySplitComma(s) == SplitFrom(s, <<>>, <<>>)

\* [f.strip() for f in s.split(',') if f.strip()]  (no whitespace in the alphabet)
fabric_list(s) == SelectSeq(PySplitComma(s), LAMBDA f : f # <<>>)

RECURSIVE DictKeys(_, _)
\* the keys of a dict filled in the order of s: duplicates kept once
DictKeys(s, acc) ==
    IF s = <<>> THEN acc
    ELSE DictKeys(Tail(s),
                  IF \E i \in DOMAIN acc : acc[i] = Head(s) THEN acc
                  ELSE Append(acc, Head(s)))

SeqToSet(s) == { s[i] : i \in DOMAIN s }

-----------------------------------------------------------------------------
(* Configuration *)

DigitValue(c) ==
    CASE c = "0" -> 0 [] c = "1" -> 1 [] c = "2" -> 2 [] c = "3" -> 3 [] c = "4" -> 4
      [] c = "5" -> 5 [] c = "6" -> 6 [] c = "7" -> 7 [] c = "8" -> 8 [] c = "9" -> 9

RECURSIVE StrToInt(_)
StrToInt(s) ==
    IF s = <<>> THEN 0
    ELSE 10 * StrToInt(SubSeq(s, 1, Len(s) - 1)) + DigitValue(s[Len(s)])

\* int(value) returns a number for a string of digits and raises ValueError
\* for the other strings of the model.
IsInt(s) ==
    /\ s # <<>>
    /\ \A i \in DOMAIN s : s[i] \in {"0", "1", "2", "3", "4", "5", "6", "7", "8", "9"}

\* bool(int(value)) of parse_pve_config for the key 'enabled'.
ParseBool(v) == v # <<"0">>

\* One parsed section: 'enabled' is converted, every other key of the model
\* passes through as the string written.
ParseSection(sec) ==
    [type |-> sec.type,
     has_enabled |-> sec.enabled # <<>>,
     enabled |-> IF sec.enabled = <<>> THEN FALSE ELSE ParseBool(sec.enabled),
     reserved_zone_names |-> sec.reserved_zone_names,
     reserved_vlans |-> sec.reserved_vlans,
     fabric_names |-> sec.fabric_names,
     has_poll_interval_seconds |-> IsInt(sec.poll_interval_seconds),
     poll_interval_seconds |-> IF IsInt(sec.poll_interval_seconds)
                               THEN StrToInt(sec.poll_interval_seconds) ELSE 0]

\* parse_pve_config(path)['ids']
parse_pve_config(file) == [id \in DOMAIN file |-> ParseSection(file[id])]

\* bool(int(value)) raises ValueError on an 'enabled' value that is no number;
\* nothing in the loop over the lines catches it.
ParseRaises(file) ==
    \E id \in DOMAIN file : file[id].enabled # <<>> /\ ~ IsInt(file[id].enabled)

\* parse_pve_config leaves through one of its except clauses: open() raised
\* FileNotFoundError or another OSError, or a line raised.
ReadFails == cfgPath # "present" \/ ParseRaises(cfgFile)

\* psm_sync_daemon.py: both except clauses return {'ids': {}}.
psm_parse_pve_config == IF ReadFails THEN <<>> ELSE parse_pve_config(cfgFile)

\* is_enabled = config.get('enabled', False); dry_run = not is_enabled
DryRunFlipped(c) == IF c.has_enabled THEN c.enabled ELSE FALSE
DryRun(c) == ~ (IF c.has_enabled THEN c.enabled ELSE FALSE)

\* config.get('poll_interval_seconds', 60)
poll_interval_of(c) ==
    IF c.has_poll_interval_seconds THEN c.poll_interval_seconds ELSE 60

\* set(config.get('reserved_zone_names', []))
reserved_zones_of(c) == PySetOfStr(c.reserved_zone_names)

\* set(config.get('reserved_vlans', []))
reserved_vlans_of(c) == PySetOfStr(c.reserved_vlans)

-----------------------------------------------------------------------------
(* Source of truth *)

\* {z['zone'] for z in data if z.get('zone')}
proxmox_zones(p) == p.zones

\* {int(v['tag']): {'zone': v.get('zone')} for v in data
\*      if v.get('tag') and v.get('isolate-ports') == 1 and v.get('orchestration') == 1}
proxmox_vnets(p) ==
    LET keep == { t \in DOMAIN p.vnets : p.vnets[t].orchestratable }
    IN  [t \in keep |-> p.vnets[t].zone]

-----------------------------------------------------------------------------
(* The diff *)

\* {t for t, v in desired_vnets.items()
\*      if t not in reserved_vlans and v.get('zone') not in reserved_zones}
desired_vlan_ids(desired_vnets, reserved_zones, reserved_vlans) ==
    { t \in DOMAIN desired_vnets :
        /\ ~ PyIntInStrSet(t, reserved_vlans)
        /\ desired_vnets[t] \notin reserved_zones }

ZonesToCreate(desired_zones, current_vrfs, reserved_zones) ==
    (desired_zones \ current_vrfs) \ reserved_zones

\* ZonesToDelete without the difference with the desired zones.
ZonesToDeleteNoDiff(desired_zones, current_vrfs, reserved_zones) ==
    (current_vrfs \cup desired_zones) \ reserved_zones

ZonesToDelete(desired_zones, current_vrfs, reserved_zones) ==
    (current_vrfs \ desired_zones) \ reserved_zones

VlansToCreateNoDiff(wanted, current_vlans) == wanted
VlansToCreate(wanted, current_vlans) == wanted \ current_vlans

VlansToDelete(wanted, current_vlans) == current_vlans \ wanted

-----------------------------------------------------------------------------
(* The target controller (external): what a successful call changes. *)

Effect(st, op, nm, tg) ==
    CASE op = "create_vrf"  -> [st EXCEPT !.vrfs = @ \cup {nm}]
      [] op = "delete_vrf"  -> [st EXCEPT !.vrfs = @ \ {nm}]
      [] op = "create_vlan" -> [st EXCEPT !.vlans = @ \cup {tg}]
      [] op = "delete_vlan" -> [st EXCEPT !.vlans = @ \ {tg}]

-----------------------------------------------------------------------------
(* Worker threads *)

MutatingOps == {"create_vrf", "delete_vrf", "create_vlan", "delete_vlan"}

NoSection ==
    [type |-> "", enabled |-> <<>>, reserved_zone_names |-> <<>>,
     reserved_vlans |-> <<>>, fabric_names |-> <<>>, poll_interval_seconds |-> <<>>]

\* The locals of a worker before its first cycle.
W0 ==
    [pc |-> "head", cfg |-> ParseSection(NoSection), dry_run |-> TRUE,
     reserved_zones |-> {}, reserved_vlans |-> {},
     todo |-> <<>>, scope |-> <<>>,
     desired_zones |-> {}, desired_vnets |-> <<>>,
     current_vrfs |-> {}, current_vlans |-> {},
     zones_to_create |-> {}, zones_to_delete |-> {},
     vlans_to_create |-> {}, vlans_to_delete |-> {},
     r_vd |-> {}, r_zd |-> {}, r_zc |-> {}, r_vc |-> {},
     poll_interval |-> 60, first |-> TRUE, slept |-> <<>>]

NoPlan ==
    [planned |-> FALSE, vrfs |-> {}, vlans |-> {},
     zc |-> {}, zd |-> {}, vc |-> {}, vd |-> {}]

NoPrev ==
    [planned |-> FALSE, clean |-> FALSE, applied |-> FALSE, skipped |-> {}, failed |-> {}]

\* The outcomes an HTTP call can have: it succeeds, or raises a RequestException.
Outcomes == IF fails < MaxFailures THEN {TRUE, FALSE} ELSE {TRUE}

Event(op, sc, nm, tg, sent, ok) ==
    [op |-> op, scope |-> sc, name |-> nm, tag |-> tg, sent |-> sent, ok |-> ok]

MinOf(S) == CHOOSE i \in S : \A j \in S : i <= j

\* The tags for which the current cycle logged a network creation in scope s.
CreatedTags(lg, s) ==
    { lg[i].tag : i \in { j \in DOMAIN lg : lg[j].op = "create_vlan" /\ lg[j].scope = s } }

\* What the cycle that ends leaves for the next one to be compared with.
SummaryOf(t) ==
    [s \in DOMAIN cyc[t] |->
        [planned |-> cyc[t][s].planned,
         clean   |-> /\ cyc[t][s].planned
                     /\ ~ w[t].dry_run
                     /\ \A i \in DOMAIN log[t] : log[t][i].ok,
         applied |-> \E i \in DOMAIN log[t] :
                        /\ log[t][i].scope = s
                        /\ log[t][i].op \in MutatingOps
                        /\ log[t][i].sent,
         skipped |-> cyc[t][s].vc \ CreatedTags(log[t], s),
         failed  |-> { <<log[t][i].op, log[t][i].name, log[t][i].tag>> :
                         i \in { j \in DOMAIN log[t] :
                                   /\ log[t][j].scope = s
                                   /\ log[t][j].op \in MutatingOps
                                   /\ log[t][j].sent /\ ~ log[t][j].ok } }]]

\* The top of the while loop: the configuration is read again and the locals of
\* the cycle are derived from the target's section.
CycleLocals(c) ==
    [W0 EXCEPT !.cfg = c,
               !.dry_run = DryRun(c),
               !.reserved_zones = reserved_zones_of(c),
               !.reserved_vlans = reserved_vlans_of(c),
               !.poll_interval = poll_interval_of(c),
               !.first = FALSE]

\* LoopHead with a worker that sleeps again where it should leave the loop.
LoopHeadStay(t, x) ==
    /\ w' = [w EXCEPT ![t] = IF x.pc = "exit" THEN [x EXCEPT !.pc = "sleep"] ELSE x]
    /\ log' = [log EXCEPT ![t] = <<>>]
    /\ prev' = [prev EXCEPT ![t] = SummaryOf(t)]
    /\ cyc' = [cyc EXCEPT ![t] = [s \in DOMAIN cyc[t] |-> NoPlan]]
    /\ UNCHANGED <<sv, daemon, cfgFile, secret, cfgPath, shape, pve, afcFabrics, fabric, fails>>

LoopHead(t, x) ==
    /\ w' = [w EXCEPT ![t] = x]
    /\ log' = [log EXCEPT ![t] = <<>>]
    /\ prev' = [prev EXCEPT ![t] = SummaryOf(t)]
    /\ cyc' = [cyc EXCEPT ![t] = [s \in DOMAIN cyc[t] |-> NoPlan]]
    /\ UNCHANGED <<sv, daemon, cfgFile, secret, cfgPath, shape, pve, afcFabrics, fabric, fails>>

\* while not stop_event.is_set()
RunningAlways == TRUE
Running == ~ stop_event

\* An exception nothing catches (SystemExit included) leaves the thread
\* function: the thread ends, the sessions are not closed.
ThreadRaises(t) ==
    /\ w[t].pc = "raised"
    /\ w' = [w EXCEPT ![t].pc = "stopped"]
    /\ nlive' = [nlive EXCEPT ![t] = @ - 1]
    /\ UNCHANGED <<daemon, cfgFile, secret, cfgPath, shape, pve, afcFabrics, fabric, log, fails, cyc, prev,
                   stop_event, sup, threads>>

\* After the loop: the sessions are closed and the thread function returns; the
\* thread is alive until then.
WorkerExit(t) ==
    /\ w[t].pc = "exit"
    /\ w' = [w EXCEPT ![t].pc = "stopped"]
    /\ nlive' = [nlive EXCEPT ![t] = @ - 1]
    /\ UNCHANGED <<daemon, cfgFile, secret, cfgPath, shape, pve, afcFabrics, fabric, log, fails, cyc, prev,
                   stop_event, sup, threads>>

\* stop_event.wait(poll_interval) returns: the event is set, or the interval is over.
Wake(t) ==
    /\ w[t].pc = "sleep"
    /\ w' = [w EXCEPT ![t].pc = "head",
                      ![t].slept = Append(@, w[t].poll_interval)]
    /\ UNCHANGED <<sv, daemon, cfgFile, secret, cfgPath, shape, pve, afcFabrics, fabric, log, fails, cyc, prev>>

\* The bodies of the responses, when the request itself succeeds:
\*   "ok"        every body has the fields the code reads;
\*   "no_data"   the Proxmox bodies are objects without 'data': .get('data', [])
\*               gives [], the same as no zone and no vnet;
\*   "bad_tag"   a vnet of the Proxmox body has a tag that is no number: int()
\*               raises ValueError, which get_proxmox_state does not catch;
\*   "no_uuid"   a fabric of the AFC body has no 'uuid': fabric['uuid'] raises
\*               KeyError, which lookup_fabric_uuids does not catch;
\*   "no_result" the bodies of the controller's state are objects without
\*               'result' (PSM: 'items'): the same as no item;
\*   "no_name"   a VRF of the AFC body has no 'name': KeyError, which
\*               get_afc_state catches (PSM: the items without a name are
\*               left out of the set).
Shapes == {"ok", "no_data", "bad_tag", "no_uuid", "no_result", "no_name"}

\* What get_afc_state / get_psm_state make of the body, for the state st.
StateRead(st) ==
    CASE shape = "no_result" -> [vrfs |-> {}, vlans |-> {}]
      [] shape = "no_name" /\ daemon = "PSM" -> [vrfs |-> {}, vlans |-> st.vlans]
      [] OTHER -> st

\* get_proxmox_state returning the zones it fetched when the vnets request fails.
get_proxmox_state_partial(t, okZones, okVnets, nextpc) ==
    IF ~ secret
    THEN /\ okZones /\ okVnets
         /\ w' = [w EXCEPT ![t].pc = "sleep"]
         /\ UNCHANGED <<log, fails>>
    ELSE /\ (~ okZones => okVnets)
         /\ log' = [log EXCEPT ![t] =
                @ \o <<Event("get_zones", <<>>, <<>>, 0, TRUE, okZones)>>
                  \o (IF okZones
                      THEN <<Event("get_vnets", <<>>, <<>>, 0, TRUE, okVnets)>>
                      ELSE <<>>)]
         /\ fails' = IF okZones /\ okVnets THEN fails ELSE fails + 1
         /\ w' = IF okZones
                 THEN [w EXCEPT ![t].desired_zones = proxmox_zones(pve),
                                ![t].desired_vnets = IF okVnets THEN proxmox_vnets(pve)
                                                     ELSE <<>>,
                                ![t].pc = nextpc]
                 ELSE [w EXCEPT ![t].pc = "sleep"]

\* get_proxmox_state returning an empty state when the secret is not set.
get_proxmox_state_open(t, okZones, okVnets, nextpc) ==
    IF ~ secret
    THEN /\ okZones /\ okVnets
         /\ w' = [w EXCEPT ![t].desired_zones = {},
                           ![t].desired_vnets = <<>>,
                           ![t].pc = nextpc]
         /\ UNCHANGED <<log, fails>>
    ELSE /\ (~ okZones => okVnets)
         /\ log' = [log EXCEPT ![t] =
                @ \o <<Event("get_zones", <<>>, <<>>, 0, TRUE, okZones)>>
                  \o (IF okZones
                      THEN <<Event("get_vnets", <<>>, <<>>, 0, TRUE, okVnets)>>
                      ELSE <<>>)]
         /\ fails' = IF okZones /\ okVnets THEN fails ELSE fails + 1
         /\ w' = IF okZones /\ okVnets
                 THEN [w EXCEPT ![t].desired_zones = proxmox_zones(pve),
                                ![t].desired_vnets = proxmox_vnets(pve),
                                ![t].pc = nextpc]
                 ELSE [w EXCEPT ![t].pc = "sleep"]

\* get_proxmox_state: no request without the secret; the zones request, then
\* the vnets request; any failure returns (None, None).
\* get_proxmox_state with a failed request followed by a new cycle at once.
get_proxmox_state_retry(t, okZones, okVnets, nextpc) ==
    IF ~ secret
    THEN /\ okZones /\ okVnets
         /\ w' = [w EXCEPT ![t].pc = "sleep"]
         /\ UNCHANGED <<log, fails>>
    ELSE /\ (~ okZones => okVnets)
         /\ log' = [log EXCEPT ![t] =
                @ \o <<Event("get_zones", <<>>, <<>>, 0, TRUE, okZones)>>
                  \o (IF okZones
                      THEN <<Event("get_vnets", <<>>, <<>>, 0, TRUE, okVnets)>>
                      ELSE <<>>)]
         /\ fails' = IF okZones /\ okVnets THEN fails ELSE fails + 1
         /\ w' = IF okZones /\ okVnets
                 THEN [w EXCEPT ![t].desired_zones = proxmox_zones(pve),
                                ![t].desired_vnets = proxmox_vnets(pve),
                                ![t].pc = nextpc]
                 ELSE [w EXCEPT ![t].pc = "head"]

get_proxmox_state(t, okZones, okVnets, nextpc) ==
    IF ~ secret
    THEN /\ okZones /\ okVnets
         /\ w' = [w EXCEPT ![t].pc = "sleep"]
         /\ UNCHANGED <<log, fails>>
    ELSE /\ (~ okZones => okVnets)
         /\ log' = [log EXCEPT ![t] =
                @ \o <<Event("get_zones", <<>>, <<>>, 0, TRUE, okZones)>>
                  \o (IF okZones
                      THEN <<Event("get_vnets", <<>>, <<>>, 0, TRUE, okVnets)>>
                      ELSE <<>>)]
         /\ fails' = IF okZones /\ okVnets THEN fails ELSE fails + 1
         /\ w' = IF okZones /\ okVnets
                 THEN CASE shape = "bad_tag" -> [w EXCEPT ![t].pc = "raised"]
                        [] shape = "no_data" ->
                              [w EXCEPT ![t].desired_zones = {},
                                        ![t].desired_vnets = <<>>,
                                        ![t].pc = nextpc]
                        [] OTHER ->
                              [w EXCEPT ![t].desired_zones = proxmox_zones(pve),
                                        ![t].desired_vnets = proxmox_vnets(pve),
                                        ![t].pc = nextpc]
                 ELSE [w EXCEPT ![t].pc = "sleep"]

\* Authenticate with a failure that ends the cycle of every worker.
AuthenticateShared(t, ok, nextpc) ==
    /\ log' = [log EXCEPT ![t] = Append(@, Event("auth", <<>>, <<>>, 0, TRUE, ok))]
    /\ fails' = IF ok THEN fails ELSE fails + 1
    /\ w' = IF ok THEN [w EXCEPT ![t].pc = nextpc]
            ELSE [u \in DOMAIN w |-> [w[u] EXCEPT !.pc = "sleep"]]

\* get_afc_token / login_to_psm: one request; a failure aborts the cycle.
Authenticate(t, ok, nextpc) ==
    /\ log' = [log EXCEPT ![t] = Append(@, Event("auth", <<>>, <<>>, 0, TRUE, ok))]
    /\ fails' = IF ok THEN fails ELSE fails + 1
    /\ w' = [w EXCEPT ![t].pc = IF ok THEN nextpc ELSE "sleep"]

\* The plan of one scope, from the locals x of the cycle and the state fetched.
WithPlan(x, vrfs, vlans) ==
    LET wanted == desired_vlan_ids(x.desired_vnets, x.reserved_zones, x.reserved_vlans)
        zc == ZonesToCreate(x.desired_zones, vrfs, x.reserved_zones)
        zd == ZonesToDelete(x.desired_zones, vrfs, x.reserved_zones)
        vc == VlansToCreate(wanted, vlans)
        vd == VlansToDelete(wanted, vlans)
    IN  [x EXCEPT !.current_vrfs = vrfs, !.current_vlans = vlans,
                  !.zones_to_create = zc, !.zones_to_delete = zd,
                  !.vlans_to_create = vc, !.vlans_to_delete = vd,
                  !.r_zc = zc, !.r_zd = zd, !.r_vc = vc, !.r_vd = vd]

PlanRecord(x) ==
    [planned |-> TRUE, vrfs |-> x.current_vrfs, vlans |-> x.current_vlans,
     zc |-> x.zones_to_create, zd |-> x.zones_to_delete,
     vc |-> x.vlans_to_create, vd |-> x.vlans_to_delete]

\* HttpMutation with a failed request ending the cycle.
HttpMutationAbort(t, x, op, nm, tg, ok) ==
    LET sent == ~ w[t].dry_run IN
    /\ sent \/ ok
    /\ log' = [log EXCEPT ![t] = Append(@, Event(op, w[t].scope, nm, tg, sent, ok))]
    /\ fabric' = IF sent /\ ok
                 THEN [fabric EXCEPT ![t][w[t].scope] = Effect(@, op, nm, tg)]
                 ELSE fabric
    /\ fails' = IF sent /\ ~ ok THEN fails + 1 ELSE fails
    /\ w' = [w EXCEPT ![t] = IF ok THEN x ELSE [x EXCEPT !.pc = "sleep"]]
    /\ UNCHANGED <<sv, daemon, cfgFile, secret, cfgPath, shape, pve, afcFabrics, cyc, prev>>

\* A create or delete function: the action is printed; in dry-run it returns
\* True without a request; otherwise one request is sent, and a
\* RequestException is caught and False returned.
\* HttpMutation with a failed request ending the thread.
HttpMutationFatal(t, x, op, nm, tg, ok) ==
    LET sent == ~ w[t].dry_run IN
    /\ sent \/ ok
    /\ log' = [log EXCEPT ![t] = Append(@, Event(op, w[t].scope, nm, tg, sent, ok))]
    /\ fabric' = IF sent /\ ok
                 THEN [fabric EXCEPT ![t][w[t].scope] = Effect(@, op, nm, tg)]
                 ELSE fabric
    /\ fails' = IF sent /\ ~ ok THEN fails + 1 ELSE fails
    /\ w' = [w EXCEPT ![t] = IF sent /\ ~ ok THEN [x EXCEPT !.pc = "exit"] ELSE x]
    /\ UNCHANGED <<sv, daemon, cfgFile, secret, cfgPath, shape, pve, afcFabrics, cyc, prev>>

\* HttpMutation deciding from the file as it is when the call is made.
HttpMutationLatestConfig(t, x, op, nm, tg, ok) ==
    LET sent == ~ DryRun(parse_pve_config(cfgFile)[t]) IN
    /\ sent \/ ok
    /\ log' = [log EXCEPT ![t] = Append(@, Event(op, w[t].scope, nm, tg, sent, ok))]
    /\ fabric' = IF sent /\ ok
                 THEN [fabric EXCEPT ![t][w[t].scope] = Effect(@, op, nm, tg)]
                 ELSE fabric
    /\ fails' = IF sent /\ ~ ok THEN fails + 1 ELSE fails
    /\ w' = [w EXCEPT ![t] = x]
    /\ UNCHANGED <<sv, daemon, cfgFile, secret, cfgPath, shape, pve, afcFabrics, cyc, prev>>

HttpMutation(t, x, op, nm, tg, ok) ==
    LET sent == ~ w[t].dry_run IN
    /\ sent \/ ok
    /\ log' = [log EXCEPT ![t] = Append(@, Event(op, w[t].scope, nm, tg, sent, ok))]
    /\ fabric' = IF sent /\ ok
                 THEN [fabric EXCEPT ![t][w[t].scope] = Effect(@, op, nm, tg)]
                 ELSE fabric
    /\ fails' = IF sent /\ ~ ok THEN fails + 1 ELSE fails
    /\ w' = [w EXCEPT ![t] = x]
    /\ UNCHANGED <<sv, daemon, cfgFile, secret, cfgPath, shape, pve, afcFabrics, cyc, prev>>

-----------------------------------------------------------------------------
(* AFC worker: sync_afc_target *)

AfcPhases == <<"del_vlans", "del_vrfs", "create_vrfs", "refetch", "create_vlans">>

\* if zone in current_vrfs
AfcVrfExists(x, zone) == zone \in x.current_vrfs

\* Whether a step of phase p remains in the scope being processed.  A tag of
\* vlans_to_create whose zone fails the test is passed over without a call.
AfcHasWork(x, p) ==
    CASE p = "del_vlans"    -> x.r_vd # {}
      [] p = "del_vrfs"     -> x.r_zd # {}
      [] p = "create_vrfs"  -> x.r_zc # {}
      [] p = "refetch"      -> x.zones_to_create # {} /\ ~ x.dry_run
      [] p = "create_vlans" -> \E tg \in x.r_vc : AfcVrfExists(x, x.desired_vnets[tg])

\* The end of a fabric's iteration ending the cycle.
AfcScopeEndAbort(x) == "sleep"

\* Where the worker goes when no phase is left: the next fabric of fabric_map,
\* or the sleep that ends the cycle.
AfcScopeEnd(x) == IF x.todo # <<>> THEN "scope" ELSE "sleep"

\* The next phase of the fixed order, from position `from`, that has a step.
AfcPc(x, from) ==
    LET cand == { i \in from..Len(AfcPhases) : AfcHasWork(x, AfcPhases[i]) }
    IN  IF cand = {} THEN AfcScopeEnd(x) ELSE AfcPhases[MinOf(cand)]

AfcHead(t) ==
    /\ daemon = "AFC"
    /\ w[t].pc = "head"
    /\ LET full == parse_pve_config(cfgFile) IN
       IF Running /\ ReadFails
       THEN LoopHead(t, [w[t] EXCEPT !.pc = "raised"])
       ELSE
       IF ~ Running \/ t \notin DOMAIN full
       THEN LoopHead(t, [w[t] EXCEPT !.pc = "exit"])
       ELSE LET x == [CycleLocals(full[t]) EXCEPT
                         !.todo = fabric_list(full[t].fabric_names)]
            IN  LoopHead(t, [x EXCEPT !.pc = IF x.todo = <<>> THEN "sleep"
                                             ELSE "get_proxmox"])

AfcGetProxmox(t) ==
    /\ daemon = "AFC"
    /\ w[t].pc = "get_proxmox"
    /\ \E okZones \in Outcomes, okVnets \in Outcomes :
          get_proxmox_state(t, okZones, okVnets, "auth")
    /\ UNCHANGED <<sv, daemon, cfgFile, secret, cfgPath, shape, pve, afcFabrics, fabric, cyc, prev>>

AfcAuth(t) ==
    /\ daemon = "AFC"
    /\ w[t].pc = "auth"
    /\ \E ok \in Outcomes : Authenticate(t, ok, "lookup")
    /\ UNCHANGED <<sv, daemon, cfgFile, secret, cfgPath, shape, pve, afcFabrics, fabric, cyc, prev>>

\* lookup_fabric_uuids: the configured fabrics the controller knows, in the
\* order configured; {} on a failed request.  An empty fabric_map skips the cycle.
AfcLookup(t) ==
    /\ daemon = "AFC"
    /\ w[t].pc = "lookup"
    /\ \E ok \in Outcomes :
          LET found == IF ok
                       THEN DictKeys(SelectSeq(w[t].todo, LAMBDA f : f \in afcFabrics), <<>>)
                       ELSE <<>>
          IN  /\ log' = [log EXCEPT ![t] = Append(@, Event("lookup", <<>>, <<>>, 0, TRUE, ok))]
              /\ fails' = IF ok THEN fails ELSE fails + 1
              /\ w' = IF ok /\ shape = "no_uuid"
                      THEN [w EXCEPT ![t].pc = "raised"]
                      ELSE [w EXCEPT ![t].todo = found,
                                     ![t].pc = IF found = <<>> THEN "sleep" ELSE "scope"]
    /\ UNCHANGED <<sv, daemon, cfgFile, secret, cfgPath, shape, pve, afcFabrics, fabric, cyc, prev>>

\* One iteration of `for fabric_name, fabric_uuid in fabric_map.items()` up to
\* the plan: get_afc_state, and on failure `continue`.
AfcScope(t) ==
    /\ daemon = "AFC"
    /\ w[t].pc = "scope"
    /\ \E ok \in Outcomes :
          LET s == Head(w[t].todo)
              x0 == [w[t] EXCEPT !.todo = Tail(@), !.scope = s]
              st == StateRead(fabric[t][s])
              x == WithPlan(x0, st.vrfs, st.vlans)
          IN  /\ log' = [log EXCEPT ![t] = Append(@, Event("get_state", s, <<>>, 0, TRUE, ok))]
              /\ fails' = IF ok THEN fails ELSE fails + 1
              /\ IF ok /\ shape # "no_name"
                 THEN /\ w' = [w EXCEPT ![t] = [x EXCEPT !.pc = AfcPc(x, 1)]]
                      /\ cyc' = [cyc EXCEPT ![t][s] = PlanRecord(x)]
                 ELSE /\ w' = [w EXCEPT ![t] = [x0 EXCEPT !.pc = AfcScopeEnd(x0)]]
                      /\ UNCHANGED cyc
    /\ UNCHANGED <<sv, daemon, cfgFile, secret, cfgPath, shape, pve, afcFabrics, fabric, prev>>

delete_afc_vlan(t, x, tg, ok) == HttpMutation(t, x, "delete_vlan", <<>>, tg, ok)
delete_afc_vrf(t, x, nm, ok) == HttpMutation(t, x, "delete_vrf", nm, 0, ok)
create_afc_vrf(t, x, nm, ok) == HttpMutation(t, x, "create_vrf", nm, 0, ok)
create_afc_vlan(t, x, tg, zone, ok) == HttpMutation(t, x, "create_vlan", zone, tg, ok)

\* for tag in vlans_to_delete: delete_afc_vlan(...)
AfcDeleteVlan(t) ==
    /\ daemon = "AFC"
    /\ w[t].pc = "del_vlans"
    /\ \E tg \in w[t].r_vd, ok \in Outcomes :
          LET x == [w[t] EXCEPT !.r_vd = @ \ {tg}]
          IN  delete_afc_vlan(t, [x EXCEPT !.pc = AfcPc(x, 1)], tg, ok)

\* for name in zones_to_delete: delete_afc_vrf(...)
AfcDeleteVrf(t) ==
    /\ daemon = "AFC"
    /\ w[t].pc = "del_vrfs"
    /\ \E nm \in w[t].r_zd, ok \in Outcomes :
          LET x == [w[t] EXCEPT !.r_zd = @ \ {nm}]
          IN  delete_afc_vrf(t, [x EXCEPT !.pc = AfcPc(x, 2)], nm, ok)

\* for name in zones_to_create: create_afc_vrf(...)
AfcCreateVrf(t) ==
    /\ daemon = "AFC"
    /\ w[t].pc = "create_vrfs"
    /\ \E nm \in w[t].r_zc, ok \in Outcomes :
          LET x == [w[t] EXCEPT !.r_zc = @ \ {nm}]
          IN  create_afc_vrf(t, [x EXCEPT !.pc = AfcPc(x, 3)], nm, ok)

\* AfcRefetch with a failed re-fetch ending the cycle.
AfcRefetchAbort(t) ==
    /\ daemon = "AFC"
    /\ w[t].pc = "refetch"
    /\ \E ok \in Outcomes :
          LET x == [w[t] EXCEPT !.current_vrfs = StateRead(fabric[t][w[t].scope]).vrfs]
          IN  /\ log' = [log EXCEPT ![t] =
                            Append(@, Event("refetch", w[t].scope, <<>>, 0, TRUE, ok))]
              /\ fails' = IF ok THEN fails ELSE fails + 1
              /\ w' = [w EXCEPT ![t] = IF ok /\ shape # "no_name"
                                       THEN [x EXCEPT !.pc = AfcPc(x, 5)]
                                       ELSE [w[t] EXCEPT !.pc = "sleep"]]
    /\ UNCHANGED <<sv, daemon, cfgFile, secret, cfgPath, shape, pve, afcFabrics, fabric, cyc, prev>>

\* if zones_to_create and not dry_run: current_vrfs, _ = get_afc_state(...);
\* if current_vrfs is None: continue
AfcRefetch(t) ==
    /\ daemon = "AFC"
    /\ w[t].pc = "refetch"
    /\ \E ok \in Outcomes :
          LET x == [w[t] EXCEPT !.current_vrfs = StateRead(fabric[t][w[t].scope]).vrfs]
          IN  /\ log' = [log EXCEPT ![t] =
                            Append(@, Event("refetch", w[t].scope, <<>>, 0, TRUE, ok))]
              /\ fails' = IF ok THEN fails ELSE fails + 1
              /\ w' = [w EXCEPT ![t] = IF ok /\ shape # "no_name"
                                       THEN [x EXCEPT !.pc = AfcPc(x, 5)]
                                       ELSE [w[t] EXCEPT !.pc = AfcScopeEnd(w[t])]]
    /\ UNCHANGED <<sv, daemon, cfgFile, secret, cfgPath, shape, pve, afcFabrics, fabric, cyc, prev>>

\* for tag in vlans_to_create: if zone in current_vrfs: create_afc_vlan(...)
AfcCreateVlan(t) ==
    /\ daemon = "AFC"
    /\ w[t].pc = "create_vlans"
    /\ \E tg \in w[t].r_vc, ok \in Outcomes :
          /\ AfcVrfExists(w[t], w[t].desired_vnets[tg])
          /\ LET x == [w[t] EXCEPT !.r_vc = @ \ {tg}]
             IN  create_afc_vlan(t, [x EXCEPT !.pc = AfcPc(x, 5)], tg,
                                 w[t].desired_vnets[tg], ok)

-----------------------------------------------------------------------------
(* PSM worker: sync_psm_target *)

PsmPhases == <<"create_vrfs", "del_vrfs", "create_vlans", "del_vlans">>

\* if zone in current_vrfs or zone in zones_to_create
PsmVrfExists(x, zone) == zone \in x.current_vrfs \/ zone \in x.zones_to_create

PsmHasWork(x, p) ==
    CASE p = "create_vrfs"  -> x.r_zc # {}
      [] p = "del_vrfs"     -> x.r_zd # {}
      [] p = "create_vlans" -> \E tg \in x.r_vc : PsmVrfExists(x, x.desired_vnets[tg])
      [] p = "del_vlans"    -> x.r_vd # {}

PsmPc(x, from) ==
    LET cand == { i \in from..Len(PsmPhases) : PsmHasWork(x, PsmPhases[i]) }
    IN  IF cand = {} THEN "sleep" ELSE PsmPhases[MinOf(cand)]

PsmHead(t) ==
    /\ daemon = "PSM"
    /\ w[t].pc = "head"
    /\ LET full == psm_parse_pve_config IN
       IF ~ Running \/ t \notin DOMAIN full
       THEN LoopHead(t, [w[t] EXCEPT !.pc = "exit"])
       ELSE LoopHead(t, [CycleLocals(full[t]) EXCEPT !.scope = PsmScope,
                                                     !.pc = "get_proxmox"])

PsmGetProxmox(t) ==
    /\ daemon = "PSM"
    /\ w[t].pc = "get_proxmox"
    /\ \E okZones \in Outcomes, okVnets \in Outcomes :
          get_proxmox_state(t, okZones, okVnets, "auth")
    /\ UNCHANGED <<sv, daemon, cfgFile, secret, cfgPath, shape, pve, afcFabrics, fabric, cyc, prev>>

PsmLogin(t) ==
    /\ daemon = "PSM"
    /\ w[t].pc = "auth"
    /\ \E ok \in Outcomes : Authenticate(t, ok, "get_state")
    /\ UNCHANGED <<sv, daemon, cfgFile, secret, cfgPath, shape, pve, afcFabrics, fabric, cyc, prev>>

\* get_psm_state, then the plan.  The code computes the zone sets before the
\* zone loops and the vnet sets after them, from locals the loops do not change.
PsmGetState(t) ==
    /\ daemon = "PSM"
    /\ w[t].pc = "get_state"
    /\ \E ok \in Outcomes :
          LET s == w[t].scope
              st == StateRead(fabric[t][s])
              x == WithPlan(w[t], st.vrfs, st.vlans)
          IN  /\ log' = [log EXCEPT ![t] = Append(@, Event("get_state", s, <<>>, 0, TRUE, ok))]
              /\ fails' = IF ok THEN fails ELSE fails + 1
              /\ IF ok
                 THEN /\ w' = [w EXCEPT ![t] = [x EXCEPT !.pc = PsmPc(x, 1)]]
                      /\ cyc' = [cyc EXCEPT ![t][s] = PlanRecord(x)]
                 ELSE /\ w' = [w EXCEPT ![t].pc = "sleep"]
                      /\ UNCHANGED cyc
    /\ UNCHANGED <<sv, daemon, cfgFile, secret, cfgPath, shape, pve, afcFabrics, fabric, prev>>

manage_psm_resource(t, x, op, nm, tg, ok) == HttpMutation(t, x, op, nm, tg, ok)

\* for zone in zones_to_create: manage_psm_resource(..., "POST", ...)
PsmCreateVrf(t) ==
    /\ daemon = "PSM"
    /\ w[t].pc = "create_vrfs"
    /\ \E nm \in w[t].r_zc, ok \in Outcomes :
          LET x == [w[t] EXCEPT !.r_zc = @ \ {nm}]
          IN  manage_psm_resource(t, [x EXCEPT !.pc = PsmPc(x, 1)], "create_vrf", nm, 0, ok)

\* for zone in zones_to_delete: manage_psm_resource(..., "DELETE", ...)
PsmDeleteVrf(t) ==
    /\ daemon = "PSM"
    /\ w[t].pc = "del_vrfs"
    /\ \E nm \in w[t].r_zd, ok \in Outcomes :
          LET x == [w[t] EXCEPT !.r_zd = @ \ {nm}]
          IN  manage_psm_resource(t, [x EXCEPT !.pc = PsmPc(x, 2)], "delete_vrf", nm, 0, ok)

\* for tag, vnet in vnets_to_create.items(): if zone in current_vrfs or ...
PsmCreateNetwork(t) ==
    /\ daemon = "PSM"
    /\ w[t].pc = "create_vlans"
    /\ \E tg \in w[t].r_vc, ok \in Outcomes :
          /\ PsmVrfExists(w[t], w[t].desired_vnets[tg])
          /\ LET x == [w[t] EXCEPT !.r_vc = @ \ {tg}]
             IN  manage_psm_resource(t, [x EXCEPT !.pc = PsmPc(x, 3)], "create_vlan",
                                     w[t].desired_vnets[tg], tg, ok)

\* for tag, vnet_info in vnets_to_delete.items(): manage_psm_resource(..., "DELETE", ...)
PsmDeleteNetwork(t) ==
    /\ daemon = "PSM"
    /\ w[t].pc = "del_vlans"
    /\ \E tg \in w[t].r_vd, ok \in Outcomes :
          LET x == [w[t] EXCEPT !.r_vd = @ \ {tg}]
          IN  manage_psm_resource(t, [x EXCEPT !.pc = PsmPc(x, 4)], "delete_vlan", <<>>, tg, ok)

-----------------------------------------------------------------------------
(* Specifications *)

Targets == {"t1"}

ScopesOf(d) == IF d = "AFC" THEN {FabricX} ELSE {PsmScope}

\* A vnet of the source of truth: its zone, and whether it is flagged both
\* isolate-ports and orchestration.
VnetSpecs == [zone : Names, orchestratable : {TRUE}]
HiddenVnet == [zone |-> <<"a", "b">>, orchestratable |-> FALSE]

\* The vnet tables of the bounded universe: every table of flagged vnets, and
\* the tables whose vnets all lack the flags.
VnetTables ==
    UNION { [D -> VnetSpecs] \cup [D -> {HiddenVnet}] : D \in SUBSET Tags }

Sections(d) ==
    [type : {d}, enabled : EnabledValues,
     reserved_zone_names : ReservedZoneValues,
     reserved_vlans : ReservedVlanValues,
     fabric_names : {IF d = "AFC" THEN FabricX ELSE <<>>},
     poll_interval_seconds : {<<>>}]

InitWorkers ==
    /\ w = [t \in Targets |-> W0]
    /\ log = [t \in Targets |-> <<>>]
    /\ cyc = [t \in Targets |-> [s \in ScopesOf(daemon) |-> NoPlan]]
    /\ prev = [t \in Targets |-> [s \in ScopesOf(daemon) |-> NoPrev]]

\* main between two ticks, with a worker thread running for every target.
Sup0 ==
    [pc |-> "sleep", todo |-> {}, cur |-> "", snapshot |-> {}, dead |-> {}, starts |-> <<>>,
     code |-> 0]

InitRunning ==
    /\ cfgPath = "present"
    /\ shape = "ok"
    /\ stop_event = FALSE
    /\ sup = Sup0
    /\ threads = [t \in Targets |-> "cur"]
    /\ nlive = [t \in Targets |-> 1]

Init ==
    /\ daemon \in {"AFC", "PSM"}
    /\ cfgFile \in [Targets -> Sections(daemon)]
    /\ secret \in BOOLEAN
    /\ pve \in [zones : SUBSET Names, vnets : VnetTables]
    /\ afcFabrics = {FabricX}
    /\ fabric \in [Targets -> [ScopesOf(daemon) -> [vrfs : SUBSET Names, vlans : SUBSET Tags]]]
    /\ fails = 0
    /\ InitWorkers
    /\ InitRunning

WorkerStep(t) ==
    \/ Wake(t)
    \/ AfcHead(t) \/ AfcGetProxmox(t) \/ AfcAuth(t) \/ AfcLookup(t) \/ AfcScope(t)
    \/ AfcDeleteVlan(t) \/ AfcDeleteVrf(t) \/ AfcCreateVrf(t) \/ AfcRefetch(t)
    \/ AfcCreateVlan(t)
    \/ PsmHead(t) \/ PsmGetProxmox(t) \/ PsmLogin(t) \/ PsmGetState(t)
    \/ PsmCreateVrf(t) \/ PsmDeleteVrf(t) \/ PsmCreateNetwork(t) \/ PsmDeleteNetwork(t)

Next == \E t \in Targets : WorkerStep(t)

Spec == Init /\ [][Next]_vars

\* Every vnet of the source of truth is in a zone of the source of truth.
Consistent(p) == \A tg \in DOMAIN p.vnets : p.vnets[tg].zone \in p.zones

\* The live targets whose calls all succeed, on a consistent source of truth:
\* the runs convergence is about.
InitLive ==
    /\ daemon \in {"AFC", "PSM"}
    /\ cfgFile \in [Targets -> { sec \in Sections(daemon) : sec.enabled = <<"1">> }]
    /\ secret = TRUE
    /\ pve \in { p \in [zones : SUBSET Names, vnets : VnetTables] : Consistent(p) }
    /\ afcFabrics = {FabricX}
    /\ fabric \in [Targets -> [ScopesOf(daemon) -> [vrfs : SUBSET Names, vlans : SUBSET Tags]]]
    /\ fails = MaxFailures
    /\ InitWorkers
    /\ InitRunning

\* A worker thread that can take a step eventually takes it.
LiveSpec == InitLive /\ [][Next]_vars /\ WF_vars(Next)

-----------------------------------------------------------------------------
(* An AFC target with two fabrics *)

\* fabric_names as written: "x,y" and "y,x".
TwoFabricNames == {FabricX \o <<",">> \o FabricY, FabricY \o <<",">> \o FabricX}

\* The worker threads of the targets T, each about to begin its first cycle,
\* with the scopes S of the controller.
InitThreads(T, S) ==
    /\ cfgPath = "present"
    /\ shape = "ok"
    /\ w = [t \in T |-> W0]
    /\ log = [t \in T |-> <<>>]
    /\ cyc = [t \in T |-> [s \in S |-> NoPlan]]
    /\ prev = [t \in T |-> [s \in S |-> NoPrev]]
    /\ stop_event = FALSE
    /\ sup = Sup0
    /\ threads = [t \in T |-> "cur"]
    /\ nlive = [t \in T |-> 1]

InitScopes ==
    /\ daemon = "AFC"
    /\ cfgFile \in [Targets -> [type : {"AFC"}, enabled : {<<"0">>, <<"1">>},
                                reserved_zone_names : {<<>>},
                                reserved_vlans : ReservedVlanValues,
                                fabric_names : TwoFabricNames,
                                poll_interval_seconds : {<<>>}]]
    /\ secret = TRUE
    /\ pve \in [zones : SUBSET {<<"a">>},
                 vnets : {<<>>, <<[zone |-> <<"a">>, orchestratable |-> TRUE]>>}]
    /\ afcFabrics \in {{FabricX, FabricY}, {FabricY}}
    /\ fabric \in [Targets -> [{FabricX, FabricY} ->
                                  [vrfs : SUBSET Names, vlans : SUBSET {1}]]]
    /\ fails = 0
    /\ InitThreads(Targets, {FabricX, FabricY})

AfcStep(t) ==
    \/ Wake(t)
    \/ AfcHead(t) \/ AfcGetProxmox(t) \/ AfcAuth(t) \/ AfcLookup(t) \/ AfcScope(t)
    \/ AfcDeleteVlan(t) \/ AfcDeleteVrf(t) \/ AfcCreateVrf(t) \/ AfcRefetch(t)
    \/ AfcCreateVlan(t)

ScopeNext == \E t \in DOMAIN w : AfcStep(t)

ScopeSpec == InitScopes /\ [][ScopeNext]_vars

-----------------------------------------------------------------------------
(* Two targets of one daemon *)

TwoTargets == {"t1", "t2"}

InitTargets ==
    /\ daemon \in {"AFC", "PSM"}
    /\ cfgFile \in [TwoTargets -> [type : {daemon}, enabled : {<<"0">>, <<"1">>},
                                   reserved_zone_names : {<<>>},
                                   reserved_vlans : ReservedVlanValues,
                                   fabric_names : {IF daemon = "AFC" THEN FabricX ELSE <<>>},
                                   poll_interval_seconds : {<<>>}]]
    /\ secret = TRUE
    /\ pve = [zones |-> {<<"a">>},
              vnets |-> <<[zone |-> <<"a">>, orchestratable |-> TRUE]>>]
    /\ afcFabrics = {FabricX}
    /\ fabric \in [TwoTargets -> [ScopesOf(daemon) ->
                                    [vrfs : {{}, {<<"a", "b">>}}, vlans : {{2}}]]]
    /\ fails = 0
    /\ InitThreads(TwoTargets, ScopesOf(daemon))

TargetsNext == \E t \in DOMAIN w : WorkerStep(t)

\* Each worker is a thread of its own: one that can take a step eventually does.
TargetsSpec ==
    InitTargets /\ [][TargetsNext]_vars /\ \A t \in TwoTargets : WF_vars(WorkerStep(t))

-----------------------------------------------------------------------------
(* main: the thread that starts the workers *)

\* str.upper() on the section types of the model.
PyUpper(s) == CASE s = "afc" -> "AFC" [] s = "psm" -> "PSM" [] OTHER -> s

\* {orch_id: details for ... if details.get('type', '').upper() == 'AFC'}
current_targets(full) == { id \in DOMAIN full : PyUpper(full[id].type) = daemon }

\* A thread runs from thread.start() until its function returns or the process ends.
Live(t) == w[t].pc \notin {"none", "stopped", "killed"}

\* threads[id].is_alive(): the registry holds the thread started last for id
\* ("cur") or one started before it ("old"), which has ended.
is_alive(id) == threads[id] = "cur" /\ Live(id)

\* The start test with a worker started for every target of every tick.
NeedsWorkerAlways(id) == TRUE

\* The start test with no worker ever started.
NeedsWorkerNever(id) == FALSE

\* if afc_id not in threads or not threads[afc_id].is_alive()
NeedsWorker(id) == threads[id] = "absent" \/ ~ is_alive(id)

\* Where main goes after a target of the tick: the next target, or time.sleep(60).
SupAfter(todo) == IF todo = {} THEN "sleep" ELSE "start"

\* The head of main's loop: the configuration is read and the targets of this
\* daemon's type selected.  (AFC sleeps at once when there is none.)
SupTick ==
    /\ sup.pc = "tick"
    /\ Running
    /\ IF daemon = "AFC" /\ ReadFails
       THEN sup' = [sup EXCEPT !.pc = "fatal", !.code = 1]
       ELSE LET ct == current_targets(psm_parse_pve_config)
            IN  sup' = [pc |-> SupAfter(ct), todo |-> ct, cur |-> "", snapshot |-> ct,
                        dead |-> {}, starts |-> [id \in ct |-> 0], code |-> 0]
    /\ UNCHANGED <<daemon, cfgFile, secret, cfgPath, shape, pve, afcFabrics, fabric, w, log, fails, cyc,
                   prev, stop_event, threads, nlive>>

\* The targets main has come to in this tick while no worker thread of theirs
\* was alive.
FoundDead(id) == IF nlive[id] = 0 THEN sup.dead \cup {id} ELSE sup.dead

\* One iteration of `for afc_id in current_targets` up to thread.start().
SupStart ==
    /\ sup.pc = "start"
    /\ \E id \in sup.todo :
          IF NeedsWorker(id)
          THEN /\ w' = [w EXCEPT ![id] = W0]
               /\ log' = [log EXCEPT ![id] = <<>>]
               /\ cyc' = [cyc EXCEPT ![id] = [s \in DOMAIN cyc[id] |-> NoPlan]]
               /\ prev' = [prev EXCEPT ![id] = [s \in DOMAIN prev[id] |-> NoPrev]]
               /\ nlive' = [nlive EXCEPT ![id] = @ + 1]
               /\ threads' = [threads EXCEPT ![id] = IF @ = "cur" THEN "old" ELSE @]
               /\ sup' = [sup EXCEPT !.pc = "record", !.cur = id,
                                     !.dead = FoundDead(id), !.starts[id] = @ + 1]
          ELSE /\ sup' = [sup EXCEPT !.todo = @ \ {id}, !.pc = SupAfter(sup.todo \ {id}),
                                     !.dead = FoundDead(id)]
               /\ UNCHANGED <<w, log, cyc, prev, nlive, threads>>
    /\ UNCHANGED <<daemon, cfgFile, secret, cfgPath, shape, pve, afcFabrics, fabric, fails, stop_event>>

\* threads[afc_id] = thread
SupRecord ==
    /\ sup.pc = "record"
    /\ threads' = [threads EXCEPT ![sup.cur] = "cur"]
    /\ sup' = [sup EXCEPT !.todo = @ \ {sup.cur}, !.cur = "",
                          !.pc = SupAfter(sup.todo \ {sup.cur})]
    /\ UNCHANGED <<daemon, cfgFile, secret, cfgPath, shape, pve, afcFabrics, fabric, w, log, fails, cyc,
                   prev, stop_event, nlive>>

\* time.sleep(60) returns.
SupWake ==
    /\ sup.pc = "sleep"
    /\ sup' = [sup EXCEPT !.pc = "tick"]
    /\ UNCHANGED <<daemon, cfgFile, secret, cfgPath, shape, pve, afcFabrics, fabric, w, log, fails, cyc,
                   prev, stop_event, threads, nlive>>

\* KeyboardInterrupt is raised in main, wherever in the try block it is.
Interrupt ==
    /\ sup.pc \in {"tick", "start", "record", "sleep"}
    /\ sup' = [sup EXCEPT !.pc = "handler"]
    /\ UNCHANGED <<daemon, cfgFile, secret, cfgPath, shape, pve, afcFabrics, fabric, w, log, fails, cyc,
                   prev, stop_event, threads, nlive>>

\* except KeyboardInterrupt: stop_event.set()
SupSetStop ==
    /\ sup.pc = "handler"
    /\ stop_event' = TRUE
    /\ sup' = [sup EXCEPT !.pc = "join"]
    /\ UNCHANGED <<daemon, cfgFile, secret, cfgPath, shape, pve, afcFabrics, fabric, w, log, fails, cyc,
                   prev, threads, nlive>>

\* for thread in threads.values(): if thread.is_alive(): thread.join()
\* main passes the loop once no thread of the registry is alive.
SupJoin ==
    /\ sup.pc = "join"
    /\ \A id \in DOMAIN threads : ~ is_alive(id)
    /\ sup' = [sup EXCEPT !.pc = "returned"]
    /\ UNCHANGED <<daemon, cfgFile, secret, cfgPath, shape, pve, afcFabrics, fabric, w, log, fails, cyc,
                   prev, stop_event, threads, nlive>>

\* main has returned, or sys.exit(1) has raised SystemExit in it: the
\* interpreter exits, and the worker threads, started with daemon = True, end
\* wherever they are.
ProcessExit ==
    /\ sup.pc \in {"returned", "fatal"}
    /\ sup' = [sup EXCEPT !.pc = "exited"]
    /\ w' = [t \in DOMAIN w |-> IF Live(t) THEN [w[t] EXCEPT !.pc = "killed"] ELSE w[t]]
    /\ nlive' = [t \in DOMAIN nlive |-> 0]
    /\ UNCHANGED <<daemon, cfgFile, secret, cfgPath, shape, pve, afcFabrics, fabric, log, fails, cyc,
                   prev, stop_event, threads>>

SupStep ==
    \/ SupTick \/ SupStart \/ SupRecord \/ SupWake
    \/ SupSetStop \/ SupJoin \/ ProcessExit

\* The administrator edits the configuration file: a section is added ...
AddSection(t, ty) ==
    /\ t \notin DOMAIN cfgFile
    /\ cfgFile' = [id \in DOMAIN cfgFile \cup {t} |->
                      IF id = t
                      THEN [type |-> ty, enabled |-> <<"1">>, reserved_zone_names |-> <<>>,
                            reserved_vlans |-> <<>>,
                            fabric_names |-> IF daemon = "AFC" THEN FabricX ELSE <<>>,
                            poll_interval_seconds |-> <<>>]
                      ELSE cfgFile[id]]
    /\ UNCHANGED <<daemon, secret, cfgPath, shape, pve, afcFabrics, fabric, w, log, fails, cyc, prev, sv>>

\* ... or removed.
RemoveSection(t) ==
    /\ t \in DOMAIN cfgFile
    /\ cfgFile' = [id \in DOMAIN cfgFile \ {t} |-> cfgFile[id]]
    /\ UNCHANGED <<daemon, secret, cfgPath, shape, pve, afcFabrics, fabric, w, log, fails, cyc, prev, sv>>

\* The section types of the model, as written in the file: t1 is a target of
\* this daemon, t2 a target of the other daemon.
TypeWritten(t) ==
    IF (t = "t1") = (daemon = "AFC") THEN "afc" ELSE "psm"

\* main starts on an empty configuration; no worker thread exists yet.
InitSup ==
    /\ cfgPath = "present"
    /\ shape = "ok"
    /\ daemon \in {"AFC", "PSM"}
    /\ cfgFile = <<>>
    /\ secret = TRUE
    /\ pve = [zones |-> {<<"a">>},
              vnets |-> <<[zone |-> <<"a">>, orchestratable |-> TRUE]>>]
    /\ afcFabrics = {FabricX}
    /\ fabric = [t \in TwoTargets |-> [s \in ScopesOf(daemon) |->
                                          [vrfs |-> {<<"a", "b">>}, vlans |-> {2}]]]
    /\ fails = 0
    /\ w = [t \in TwoTargets |-> [W0 EXCEPT !.pc = "none"]]
    /\ log = [t \in TwoTargets |-> <<>>]
    /\ cyc = [t \in TwoTargets |-> [s \in ScopesOf(daemon) |-> NoPlan]]
    /\ prev = [t \in TwoTargets |-> [s \in ScopesOf(daemon) |-> NoPrev]]
    /\ stop_event = FALSE
    /\ sup = [Sup0 EXCEPT !.pc = "tick"]
    /\ threads = [t \in TwoTargets |-> "absent"]
    /\ nlive = [t \in TwoTargets |-> 0]

ThreadStep(t) == WorkerStep(t) \/ WorkerExit(t)

SupNext ==
    \/ \E t \in DOMAIN w : ThreadStep(t)
    \/ SupStep
    \/ Interrupt
    \/ \E t \in TwoTargets : AddSection(t, TypeWritten(t))
    \/ \E t \in TwoTargets : RemoveSection(t)

\* main and every worker are threads of their own: one that can take a step
\* eventually does.  Nothing obliges the interrupt or an edit of the file.
SupSpec ==
    /\ InitSup /\ [][SupNext]_vars
    /\ WF_vars(SupStep)
    /\ \A t \in TwoTargets : WF_vars(ThreadStep(t))

-----------------------------------------------------------------------------
(* What the claims speak about *)

\* The items a configuration value lists: its comma-separated, non-empty parts.
ListedItems(s) == { x \in SeqToSet(PySplitComma(s)) : x # <<>> }

\* The zone names and the VLAN tags the section c reserves.
ListedZones(c) == ListedItems(c.reserved_zone_names)
ListedVlans(c) == { StrToInt(x) : x \in ListedItems(c.reserved_vlans) }

\* TRUE iff the cycle of t runs on a TargetConfig with enabled=0 or no enabled key.
DryConfig(t) == ~ w[t].cfg.has_enabled \/ ~ w[t].cfg.enabled

IsMutation(e) == e.op \in MutatingOps

\* The number of times the current cycle of t attempted op on the item in scope s.
Attempts(t, s, op, nm, tg) ==
    Cardinality({ i \in DOMAIN log[t] :
                    /\ log[t][i].op = op /\ log[t][i].scope = s
                    /\ log[t][i].name = nm /\ log[t][i].tag = tg })

\* The execution of the plan of the worker's current scope has run to its end.
ScopeFinished(t) ==
    /\ w[t].scope \in DOMAIN cyc[t]
    /\ cyc[t][w[t].scope].planned
    /\ w[t].pc \in {"scope", "sleep"}

RefetchFailed(t, s) ==
    \E i \in DOMAIN log[t] :
        log[t][i].op = "refetch" /\ log[t][i].scope = s /\ ~ log[t][i].ok

-----------------------------------------------------------------------------
(* C1: in every cycle and scope, no routing-domain create and no               *)
(* routing-domain delete is planned or issued for a name the target's          *)
(* configuration lists in reserved_zone_names.                                 *)
C1_ReservedZonesUntouched ==
    \A t \in DOMAIN w :
        LET R == ListedZones(w[t].cfg) IN
        /\ \A s \in DOMAIN cyc[t] :
              cyc[t][s].zc \cap R = {} /\ cyc[t][s].zd \cap R = {}
        /\ \A i \in DOMAIN log[t] :
              log[t][i].op \in {"create_vrf", "delete_vrf"} => log[t][i].name \notin R

(* C2: in every cycle and scope, no network create and no network delete is    *)
(* planned or issued for a tag listed in the target's reserved VLAN ids.       *)
C2_ReservedVlansUntouched ==
    \A t \in DOMAIN w :
        LET R == ListedVlans(w[t].cfg) IN
        /\ \A s \in DOMAIN cyc[t] :
              cyc[t][s].vc \cap R = {} /\ cyc[t][s].vd \cap R = {}
        /\ \A i \in DOMAIN log[t] :
              log[t][i].op \in {"create_vlan", "delete_vlan"} => log[t][i].tag \notin R

(* C3: in a cycle whose TargetConfig has enabled=0 or no enabled key, no       *)
(* create or delete request is sent to the controller, whatever the plan, and  *)
(* the controller's state stays the one the cycle fetched.                     *)
C3_DryRunPurity ==
    \A t \in DOMAIN w :
        DryConfig(t) =>
            /\ \A i \in DOMAIN log[t] : IsMutation(log[t][i]) => ~ log[t][i].sent
            /\ \A s \in DOMAIN cyc[t] :
                  cyc[t][s].planned =>
                      /\ fabric[t][s].vrfs = cyc[t][s].vrfs
                      /\ fabric[t][s].vlans = cyc[t][s].vlans

\* A dry-run cycle that reported an action of a non-empty plan.
C3_Witness ==
    \E t \in DOMAIN w :
        /\ DryConfig(t)
        /\ w[t].cfg.has_enabled
        /\ \E i \in DOMAIN log[t] : IsMutation(log[t][i])

\* The place of a call in the order of the claim C4.
Rank(op) ==
    CASE op = "delete_vlan" -> 1
      [] op = "delete_vrf"  -> 2
      [] op = "create_vrf"  -> 3
      [] op = "refetch"     -> 4
      [] op = "create_vlan" -> 5
      [] OTHER              -> 0

(* C4: within one scope of one cycle every network delete comes before every   *)
(* routing-domain delete, every routing-domain delete before every             *)
(* routing-domain create, every routing-domain create before every network     *)
(* create; and when a routing domain was created in a live cycle, the actual   *)
(* routing domains are re-fetched between the last routing-domain create and   *)
(* the first network create.                                                   *)
C4_ExecutionOrder ==
    \A t \in DOMAIN w :
        \A i, j \in DOMAIN log[t] :
            (i < j /\ log[t][i].scope = log[t][j].scope
                   /\ Rank(log[t][i].op) > 0 /\ Rank(log[t][j].op) > 0) =>
                /\ Rank(log[t][i].op) <= Rank(log[t][j].op)
                /\ (log[t][i].op = "create_vrf" /\ log[t][i].sent
                        /\ log[t][j].op = "create_vlan") =>
                       \E k \in DOMAIN log[t] :
                           /\ i < k /\ k < j
                           /\ log[t][k].op = "refetch"
                           /\ log[t][k].scope = log[t][i].scope

(* C5: when the plan holds the creation of routing domain Z and the creation   *)
(* of a network whose zone is Z, the creation of Z is applied and, in a live   *)
(* cycle, the actual state is refreshed, before the network creation is        *)
(* attempted.                                                                  *)
C5_DependencyOrdering ==
    \A t \in DOMAIN w :
        \A j \in DOMAIN log[t] :
            (log[t][j].op = "create_vlan"
                /\ log[t][j].name \in cyc[t][log[t][j].scope].zc) =>
                \E i \in DOMAIN log[t] :
                    /\ i < j
                    /\ log[t][i].op = "create_vrf"
                    /\ log[t][i].name = log[t][j].name
                    /\ log[t][i].scope = log[t][j].scope
                    /\ ~ w[t].dry_run =>
                          \E k \in DOMAIN log[t] :
                              /\ i < k /\ k < j
                              /\ log[t][k].op = "refetch"
                              /\ log[t][k].scope = log[t][j].scope
                              /\ log[t][k].ok

(* C6: a network creation is attempted only if its routing domain is in the    *)
(* (possibly refreshed) actual routing domains of the scope or was created     *)
(* earlier in the cycle (in dry-run: reported as created); a creation skipped  *)
(* for that reason is in the plan of the next cycle again.                     *)
C6_CreateOnlyOnExistingDomain ==
    \A t \in DOMAIN w :
        /\ \A j \in DOMAIN log[t] :
              (log[t][j].op = "create_vlan" /\ log[t][j].scope = w[t].scope) =>
                  \/ log[t][j].name \in w[t].current_vrfs
                  \/ \E i \in DOMAIN log[t] :
                        /\ i < j
                        /\ log[t][i].op = "create_vrf"
                        /\ log[t][i].scope = log[t][j].scope
                        /\ log[t][i].name = log[t][j].name
                        /\ log[t][i].ok
        /\ \A s \in DOMAIN cyc[t] :
              (cyc[t][s].planned /\ prev[t][s].planned) =>
                  prev[t][s].skipped \subseteq cyc[t][s].vc

(* C7: the plan each daemon computes equals the reference diff on the desired  *)
(* state, the actual state fetched and the reserved sets of the target.        *)
C7_DiffMatchesReference ==
    \A t \in DOMAIN w :
        \A s \in DOMAIN cyc[t] :
            cyc[t][s].planned =>
                LET RZ == ListedZones(w[t].cfg)
                    RV == ListedVlans(w[t].cfg)
                    filtered == { tg \in DOMAIN w[t].desired_vnets :
                                    tg \notin RV /\ w[t].desired_vnets[tg] \notin RZ }
                IN  /\ cyc[t][s].zc = (w[t].desired_zones \ cyc[t][s].vrfs) \ RZ
                    /\ cyc[t][s].zd = (cyc[t][s].vrfs \ w[t].desired_zones) \ RZ
                    /\ cyc[t][s].vc = filtered \ cyc[t][s].vlans
                    /\ cyc[t][s].vd = cyc[t][s].vlans \ filtered

(* C8 as stated: after a live cycle whose calls all succeeded, the plan of the *)
(* next cycle is empty.                                                        *)
C8_EmptyPlanAfterApply ==
    \A t \in DOMAIN w :
        \A s \in DOMAIN cyc[t] :
            (prev[t][s].clean /\ cyc[t][s].planned) =>
                /\ cyc[t][s].zc = {} /\ cyc[t][s].zd = {}
                /\ cyc[t][s].vc = {} /\ cyc[t][s].vd = {}

(* C8, amended: after a live cycle whose calls all succeeded, the plan of the  *)
(* next cycle has no delete and no routing-domain create, its network creates  *)
(* are the ones the first cycle skipped, whose zone is still absent, and the   *)
(* cycle attempts no create and no delete.                                     *)
C8_Idempotence ==
    \A t \in DOMAIN w :
        \A s \in DOMAIN cyc[t] :
            (prev[t][s].clean /\ cyc[t][s].planned) =>
                /\ cyc[t][s].zc = {} /\ cyc[t][s].zd = {} /\ cyc[t][s].vd = {}
                /\ cyc[t][s].vc = prev[t][s].skipped
                /\ \A tg \in cyc[t][s].vc : w[t].desired_vnets[tg] \notin cyc[t][s].vrfs
                /\ \A i \in DOMAIN log[t] :
                      log[t][i].scope = s => ~ IsMutation(log[t][i])

\* A second cycle that has planned, after a first one that applied at least
\* one change with every call succeeding.
C8_Witness ==
    \E t \in DOMAIN w :
        \E s \in DOMAIN cyc[t] :
            prev[t][s].clean /\ prev[t][s].applied /\ cyc[t][s].planned

\* The reserved sets a section lists leave these names and tags to the daemon.
Converged(t) ==
    LET RZ == ListedZones(cfgFile[t])
        RV == ListedVlans(cfgFile[t])
        vnets == proxmox_vnets(pve)
    IN  \A s \in DOMAIN fabric[t] :
            /\ fabric[t][s].vrfs \ RZ = proxmox_zones(pve) \ RZ
            /\ fabric[t][s].vlans \ RV =
                  { tg \in DOMAIN vnets : vnets[tg] \notin RZ } \ RV

(* C9: a live target whose desired state does not change and whose calls all   *)
(* succeed eventually has, on every scope, the desired routing domains and     *)
(* network tags on all non-reserved names and tags, and keeps them.            *)
C9_Convergence == <>[](\A t \in DOMAIN w : Converged(t))

(* C10 as stated: in every cycle that reaches execution each item of the plan  *)
(* is attempted exactly once.                                                  *)
C10_EveryItemExactlyOnce ==
    \A t \in DOMAIN w :
        ScopeFinished(t) =>
            LET s == w[t].scope
                P == cyc[t][s]
            IN  /\ \A tg \in P.vd : Attempts(t, s, "delete_vlan", <<>>, tg) = 1
                /\ \A nm \in P.zd : Attempts(t, s, "delete_vrf", nm, 0) = 1
                /\ \A nm \in P.zc : Attempts(t, s, "create_vrf", nm, 0) = 1
                /\ \A tg \in P.vc :
                      Attempts(t, s, "create_vlan", w[t].desired_vnets[tg], tg) = 1

\* The item of a call is an item of the plan of its scope, under its own kind.
InPlan(P, e) ==
    CASE e.op = "delete_vlan" -> e.tag \in P.vd
      [] e.op = "delete_vrf"  -> e.name \in P.zd
      [] e.op = "create_vrf"  -> e.name \in P.zc
      [] e.op = "create_vlan" -> e.tag \in P.vc

\* The routing domain of a network creation passes the daemon's test.
DomainKnown(t, zone) ==
    \/ zone \in w[t].current_vrfs
    \/ daemon = "PSM" /\ zone \in w[t].zones_to_create

(* C10, amended: a failed create or delete does not abort the rest of the      *)
(* plan.  Every call of a cycle is for an item of the plan and no item is      *)
(* attempted twice; when the execution of a scope ends, each delete and each   *)
(* routing-domain create of the plan was attempted exactly once, and each      *)
(* network create exactly once if its routing domain is in the (refreshed)     *)
(* actual set (PSM: or among the zones to create) and the AFC re-fetch did not *)
(* fail, and not at all otherwise.                                             *)
C10_PartialFailureIsolation ==
    \A t \in DOMAIN w :
        /\ \A i \in DOMAIN log[t] :
              IsMutation(log[t][i]) =>
                  /\ InPlan(cyc[t][log[t][i].scope], log[t][i])
                  /\ \A j \in DOMAIN log[t] :
                        (log[t][j].op = log[t][i].op /\ log[t][j].scope = log[t][i].scope
                            /\ log[t][j].name = log[t][i].name
                            /\ log[t][j].tag = log[t][i].tag) => j = i
        /\ ScopeFinished(t) =>
              LET s == w[t].scope
                  P == cyc[t][s]
              IN  /\ \A tg \in P.vd : Attempts(t, s, "delete_vlan", <<>>, tg) = 1
                  /\ \A nm \in P.zd : Attempts(t, s, "delete_vrf", nm, 0) = 1
                  /\ \A nm \in P.zc : Attempts(t, s, "create_vrf", nm, 0) = 1
                  /\ \A tg \in P.vc :
                        Attempts(t, s, "create_vlan", w[t].desired_vnets[tg], tg) =
                            IF DomainKnown(t, w[t].desired_vnets[tg]) /\ ~ RefetchFailed(t, s)
                            THEN 1 ELSE 0

\* A finished scope in which a call failed and a later call was still made.
C10_Witness ==
    \E t \in DOMAIN w :
        /\ ScopeFinished(t)
        /\ \E i, j \in DOMAIN log[t] :
              /\ i < j
              /\ IsMutation(log[t][i]) /\ ~ log[t][i].ok
              /\ IsMutation(log[t][j])

-----------------------------------------------------------------------------
\* The cycle of t holds a failed request of the desired-state fetch or a failed
\* authentication.
FetchOrAuthFailed(t) ==
    \E i \in DOMAIN log[t] :
        log[t][i].op \in {"get_zones", "get_vnets", "auth"} /\ ~ log[t][i].ok

\* The calls that come after authentication: fetches of the actual state and
\* creates and deletes.
AfterAuthOps == {"lookup", "get_state", "refetch"} \cup MutatingOps

(* C11: if a request of the desired-state fetch fails (the first or only the   *)
(* second), or the authentication fails, the cycle holds no actual-state fetch *)
(* and no create or delete, no plan is computed from a partial desired state,  *)
(* and the worker is at the sleep that ends the cycle or back at the loop head.*)
C11_AbortOnFetchOrAuthFailure ==
    \A t \in DOMAIN w :
        FetchOrAuthFailed(t) =>
            /\ \A i \in DOMAIN log[t] : log[t][i].op \notin AfterAuthOps
            /\ \A s \in DOMAIN cyc[t] : ~ cyc[t][s].planned
            /\ (\E i \in DOMAIN log[t] : log[t][i].op # "auth" /\ ~ log[t][i].ok)
                  => w[t].desired_zones = {} /\ w[t].desired_vnets = <<>>
            /\ w[t].pc \in {"sleep", "head"}

\* A live cycle whose zones request succeeded and whose vnets request failed,
\* over a controller that holds a routing domain the source of truth lacks.
C11_Witness ==
    \E t \in DOMAIN w :
        /\ Len(log[t]) = 2
        /\ log[t][1].op = "get_zones" /\ log[t][1].ok
        /\ log[t][2].op = "get_vnets" /\ ~ log[t][2].ok
        /\ ~ w[t].dry_run
        /\ w[t].pc = "sleep"
        /\ \E s \in DOMAIN fabric[t] : fabric[t][s].vrfs \ pve.zones # {}

(* C12: without the token secret the desired-state fetch sends no request and  *)
(* the cycle ends there: the cycle holds no call at all, no plan is computed   *)
(* (the desired state is not taken as empty), and the worker is at the fetch,  *)
(* at the sleep that ends the cycle or at the loop head.                       *)
C12_SecretsFailClosed ==
    ~ secret =>
        \A t \in DOMAIN w :
            /\ log[t] = <<>>
            /\ \A s \in DOMAIN cyc[t] : ~ cyc[t][s].planned
            /\ w[t].pc \in {"head", "get_proxmox", "sleep"}

\* A live target without the secret whose cycle has ended, over a controller
\* whose routing domains an empty desired state would have deleted.
C12_Witness ==
    /\ ~ secret
    /\ \E t \in DOMAIN w :
        /\ w[t].pc = "sleep"
        /\ ~ w[t].dry_run
        /\ w[t].todo # <<>> \/ daemon = "PSM"
        /\ \E s \in DOMAIN fabric[t] :
              (fabric[t][s].vrfs \ w[t].reserved_zones) # {} /\ fabric[t][s].vlans # {}

-----------------------------------------------------------------------------
\* The configured fabrics the controller knows: the scopes of a cycle of t.
ConfiguredScopes(t) ==
    { s \in SeqToSet(fabric_list(w[t].cfg.fabric_names)) : s \in afcFabrics }

\* The cycle of t passed the fabric lookup and has run to its end.
CycleEnded(t) ==
    /\ w[t].pc = "sleep"
    /\ \E i \in DOMAIN log[t] : log[t][i].op = "lookup" /\ log[t][i].ok

StateFetchFailed(t, s) ==
    \E i \in DOMAIN log[t] :
        log[t][i].op = "get_state" /\ log[t][i].scope = s /\ ~ log[t][i].ok

(* C13: when a cycle that reached the scopes ends, the actual state of every   *)
(* configured scope was fetched once; a scope whose fetch failed has no plan   *)
(* and no other call, and every other scope has its plan and each delete and   *)
(* each routing-domain create of it attempted once, in the same cycle.         *)
C13_ScopeFaultIsolation ==
    \A t \in DOMAIN w :
        CycleEnded(t) =>
            \A s \in ConfiguredScopes(t) :
                /\ Attempts(t, s, "get_state", <<>>, 0) = 1
                /\ IF StateFetchFailed(t, s)
                   THEN /\ ~ cyc[t][s].planned
                        /\ \A i \in DOMAIN log[t] :
                              log[t][i].scope = s => log[t][i].op = "get_state"
                   ELSE /\ cyc[t][s].planned
                        /\ \A tg \in cyc[t][s].vd : Attempts(t, s, "delete_vlan", <<>>, tg) = 1
                        /\ \A nm \in cyc[t][s].zd : Attempts(t, s, "delete_vrf", nm, 0) = 1
                        /\ \A nm \in cyc[t][s].zc : Attempts(t, s, "create_vrf", nm, 0) = 1

\* A live cycle of two fabrics that has ended: the fetch of the first fabric
\* failed, and a delete of the second was sent and applied.
C13_Witness ==
    \E t \in DOMAIN w :
        /\ CycleEnded(t)
        /\ \E s1, s2 \in ConfiguredScopes(t) :
              /\ s1 # s2
              /\ StateFetchFailed(t, s1)
              /\ \E i, j \in DOMAIN log[t] :
                    /\ i < j
                    /\ log[t][i].op = "get_state" /\ log[t][i].scope = s1
                    /\ log[t][j].op = "delete_vrf" /\ log[t][j].scope = s2
                    /\ log[t][j].sent /\ log[t][j].ok

-----------------------------------------------------------------------------
\* The plan of scope s of target t is the diff of the source of truth against
\* the state fetched for (t, s), with the reserved sets of t's own section.
OwnPlan(t, s) ==
    LET c == parse_pve_config(cfgFile)[t]
        P == cyc[t][s]
        wanted == desired_vlan_ids(proxmox_vnets(pve), reserved_zones_of(c),
                                   reserved_vlans_of(c))
    IN  /\ P.zc = ZonesToCreate(proxmox_zones(pve), P.vrfs, reserved_zones_of(c))
        /\ P.zd = ZonesToDelete(proxmox_zones(pve), P.vrfs, reserved_zones_of(c))
        /\ P.vc = VlansToCreate(wanted, P.vlans)
        /\ P.vd = VlansToDelete(wanted, P.vlans)

\* A step that changes what belongs to t leaves what belongs to u as it is.
StepOfOneTarget(t, u) ==
    (w'[t] # w[t] \/ log'[t] # log[t] \/ fabric'[t] # fabric[t] \/ cyc'[t] # cyc[t])
        => (w'[u] = w[u] /\ log'[u] = log[u] /\ fabric'[u] = fabric[u] /\ cyc'[u] = cyc[u])

(* C14: under any interleaving of two workers with failing calls, a step of    *)
(* one worker changes no local, call record, controller or plan of the other;  *)
(* the plan a worker computes is the diff of its own inputs; and each worker   *)
(* keeps completing its cycles whatever fails in the other.                    *)
C14_TargetFaultIsolation ==
    /\ [][\A t, u \in DOMAIN w : t # u => StepOfOneTarget(t, u)]_vars
    /\ [](\A t \in DOMAIN w : \A s \in DOMAIN cyc[t] : cyc[t][s].planned => OwnPlan(t, s))
    /\ \A t \in TwoTargets : []<>(w[t].pc = "sleep")

\* The cycle of one target holds a failed authentication while the other
\* target has ended a live cycle in which it planned and sent a call.
C14_Witness ==
    \E t, u \in DOMAIN w :
        /\ t # u
        /\ FetchOrAuthFailed(t)
        /\ w[u].pc = "sleep"
        /\ \E s \in DOMAIN cyc[u] : cyc[u][s].planned
        /\ \E i \in DOMAIN log[u] : IsMutation(log[u][i]) /\ log[u][i].sent /\ log[u][i].ok

-----------------------------------------------------------------------------
\* main is in its loop: no interrupt has been raised.
SupRunning == sup.pc \in {"tick", "start", "record", "sleep"}

\* The section of t is in the file with the type of this daemon.
Configured(t) ==
    t \in DOMAIN cfgFile /\ PyUpper(cfgFile[t].type) = daemon

(* C15: a worker thread is started only by main, for a target of the           *)
(* configuration read on this tick that has the daemon's type and no live      *)
(* worker; when a tick ends, main has started exactly one worker for every     *)
(* such target it found without a live worker and none for the others; and a   *)
(* configured target without a live worker gets one (unless it is removed, or  *)
(* main is interrupted).                                                       *)
C15_SupervisorStartRule ==
    /\ [][\A t \in DOMAIN w :
            nlive'[t] > nlive[t] =>
                /\ sup.pc = "start" /\ t \in sup.snapshot
                /\ nlive[t] = 0 /\ nlive'[t] = 1
                /\ w'[t].pc = "head"]_vars
    /\ [](sup.pc = "sleep" =>
            /\ sup.todo = {}
            /\ \A id \in sup.snapshot : sup.starts[id] = IF id \in sup.dead THEN 1 ELSE 0)
    /\ [][sup.pc = "tick" /\ sup'.pc \in {"start", "sleep"} =>
            sup'.snapshot = { t \in DOMAIN w : Configured(t) }]_vars
    /\ \A t \in TwoTargets :
          (Configured(t) /\ nlive[t] = 0) ~> (nlive[t] = 1 \/ ~ Configured(t) \/ ~ SupRunning)

\* A tick has ended in which main started a worker for a target whose earlier
\* worker had exited, while a section of the other daemon's type got none.
C15_Witness ==
    /\ sup.pc = "sleep"
    /\ \E id \in sup.snapshot :
          /\ id \in sup.dead /\ sup.starts[id] = 1
          /\ threads[id] = "cur" /\ Live(id)
          /\ \E s \in DOMAIN fabric[id] : fabric[id][s].vrfs = pve.zones
    /\ \E id \in DOMAIN cfgFile : id \notin sup.snapshot /\ nlive[id] = 0

(* C16 as stated: a worker that finds its section absent at the loop head      *)
(* leaves the loop without a call; a target whose section is absent has its    *)
(* worker stopped eventually (unless the section comes back or the daemon is   *)
(* interrupted); and main starts no worker for a target while its section is   *)
(* absent.                                                                     *)
C16_HotRemove ==
    /\ [][\A t \in DOMAIN w :
            (w[t].pc = "head" /\ t \notin DOMAIN cfgFile /\ w'[t] # w[t] /\ SupRunning)
                => (w'[t].pc = "exit" /\ log'[t] = <<>>)]_vars
    /\ [](\A t \in DOMAIN w : w[t].pc \in {"exit", "stopped"} => log[t] = <<>>)
    /\ \A t \in TwoTargets :
          (t \notin DOMAIN cfgFile) ~>
              (w[t].pc \in {"none", "stopped"} \/ t \in DOMAIN cfgFile \/ ~ SupRunning)
    /\ [][\A t \in DOMAIN w : t \notin DOMAIN cfgFile => nlive'[t] <= nlive[t]]_vars

(* C16, amended: as above, but main starts no worker for a target that the     *)
(* configuration it read on this tick lacks (a section removed after the read  *)
(* still gets its worker, which stops at its first loop head).                 *)
C16_HotRemoveOnReload ==
    /\ [][\A t \in DOMAIN w :
            (w[t].pc = "head" /\ t \notin DOMAIN cfgFile /\ w'[t] # w[t] /\ SupRunning)
                => (w'[t].pc = "exit" /\ log'[t] = <<>>)]_vars
    /\ [](\A t \in DOMAIN w : w[t].pc \in {"exit", "stopped"} => log[t] = <<>>)
    /\ \A t \in TwoTargets :
          (t \notin DOMAIN cfgFile) ~>
              (w[t].pc \in {"none", "stopped"} \/ t \in DOMAIN cfgFile \/ ~ SupRunning)
    /\ [][\A t \in DOMAIN w : t \notin sup.snapshot => nlive'[t] <= nlive[t]]_vars

\* A worker that ran a live cycle has stopped because its section is gone,
\* with main still in its loop.
C16_Witness ==
    \E t \in DOMAIN w :
        /\ w[t].pc = "stopped"
        /\ t \notin DOMAIN cfgFile
        /\ ~ stop_event /\ SupRunning
        /\ \E s \in DOMAIN prev[t] : prev[t][s].applied

(* C17: no target ever has two live worker threads; and while main is in its   *)
(* loop or in its handler, a worker thread ends only by leaving its own loop.  *)
C17_AtMostOneWorker ==
    /\ [](\A t \in DOMAIN w : nlive[t] <= 1)
    /\ [][\A t \in DOMAIN w :
            (nlive'[t] < nlive[t] /\ sup'.pc # "exited") => w[t].pc = "exit"]_vars

\* main has passed a target whose worker is alive without starting another.
C17_Witness ==
    \E t \in DOMAIN w :
        /\ sup.pc \in {"start", "sleep"}
        /\ t \in sup.snapshot /\ t \notin sup.todo /\ t \notin sup.dead
        /\ nlive[t] = 1 /\ Live(t)

(* C18: when main has returned after an interrupt, no worker thread it started *)
(* is alive.                                                                   *)
C18_ShutdownWaitsForAll ==
    sup.pc = "returned" => \A t \in DOMAIN w : nlive[t] = 0 /\ ~ Live(t)

(* C19: once the stop event is set and a worker is sleeping, at the loop head  *)
(* or past its loop, the worker goes only from the sleep to the loop head and  *)
(* out of the loop, and its record of calls gets no new call.                  *)
C19_NoCallAfterCancellation ==
    [][\A t \in DOMAIN w :
          (stop_event /\ w[t].pc \in {"sleep", "head", "exit", "stopped"}) =>
              /\ w'[t].pc \in {"sleep", "head", "exit", "stopped", "killed"}
              /\ log'[t] = log[t] \/ log'[t] = <<>>]_vars

\* The stop event is set while a worker that has made calls is sleeping.
C19_Witness ==
    \E t \in DOMAIN w :
        /\ stop_event
        /\ w[t].pc = "sleep"
        /\ log[t] # <<>>

(* C20: once the stop event is set, eventually main has returned and every     *)
(* worker thread that was started has left its loop and stopped.               *)
C20_ShutdownLiveness ==
    [](stop_event =>
          <>(/\ sup.pc \in {"returned", "exited"}
             /\ \A t \in DOMAIN w : w[t].pc \in {"none", "stopped"}))

-----------------------------------------------------------------------------
\* The creates and deletes the cycle of t reported or sent in scope s.
CallsOf(t, s) ==
    { <<log[t][i].op, log[t][i].name, log[t][i].tag>> :
        i \in { j \in DOMAIN log[t] : IsMutation(log[t][j]) /\ log[t][j].scope = s } }

\* The routing domains a live cycle whose calls all succeed knows when it comes
\* to the network creations of the plan P: AFC re-fetches them if it created
\* one, PSM adds the zones it planned to create to the ones it fetched.
DomainsOfLiveCycle(P) ==
    IF daemon = "AFC"
    THEN IF P.zc # {} THEN (P.vrfs \ P.zd) \cup P.zc ELSE P.vrfs
    ELSE P.vrfs \cup P.zc

\* The creates and deletes a live cycle whose calls all succeed attempts on the
\* plan P of t.
LiveCalls(t, P) ==
    { <<"delete_vlan", <<>>, tg>> : tg \in P.vd }
        \cup { <<"delete_vrf", nm, 0>> : nm \in P.zd }
        \cup { <<"create_vrf", nm, 0>> : nm \in P.zc }
        \cup { <<"create_vlan", w[t].desired_vnets[tg], tg>> :
                 tg \in { x \in P.vc : w[t].desired_vnets[x] \in DomainsOfLiveCycle(P) } }

\* LiveCalls is what the live cycles of the model attempt when no call fails.
LiveCallsAreTheLiveCycle ==
    \A t \in DOMAIN w :
        (ScopeFinished(t) /\ ~ w[t].dry_run /\ \A i \in DOMAIN log[t] : log[t][i].ok)
            => CallsOf(t, w[t].scope) = LiveCalls(t, cyc[t][w[t].scope])

(* C24: when a dry-run cycle has gone through the plan of a scope, the actions *)
(* it reported are exactly the creates and deletes a live cycle whose calls    *)
(* all succeed attempts on the same desired state, actual state and reserved   *)
(* sets.                                                                       *)
C24_DryRunReportsLivePlan ==
    \A t \in DOMAIN w :
        (ScopeFinished(t) /\ w[t].dry_run)
            => CallsOf(t, w[t].scope) = LiveCalls(t, cyc[t][w[t].scope])

(* C29: in every cycle and scope, no network creation is sent for a network    *)
(* bound to a routing domain that is among the cycle's routing-domain          *)
(* deletions.                                                                  *)
C29_NoCreateOnDeletedDomain ==
    \A t \in DOMAIN w :
        \A i \in DOMAIN log[t] :
            (log[t][i].op = "create_vlan" /\ log[t][i].sent)
                => log[t][i].name \notin cyc[t][log[t][i].scope].zd

\* The creates and deletes the cycle of t sent in scope s.
SentCallsOf(t, s) ==
    { <<log[t][i].op, log[t][i].name, log[t][i].tag>> :
        i \in { j \in DOMAIN log[t] :
                  IsMutation(log[t][j]) /\ log[t][j].scope = s /\ log[t][j].sent } }

\* The item of a call is in the plan P.
ItemInPlan(P, f) ==
    CASE f[1] = "delete_vlan" -> f[3] \in P.vd
      [] f[1] = "delete_vrf"  -> f[2] \in P.zd
      [] f[1] = "create_vrf"  -> f[2] \in P.zc
      [] f[1] = "create_vlan" -> f[3] \in P.vc

(* C25: a create or delete that failed in a live cycle is in the plan of the   *)
(* worker's next cycle and is sent again in it, the desired state and the      *)
(* configuration being unchanged and the actual state changed by the worker    *)
(* only.                                                                       *)
C25_FailedItemRetried ==
    \A t \in DOMAIN w :
        ScopeFinished(t) =>
            \A f \in prev[t][w[t].scope].failed :
                /\ ItemInPlan(cyc[t][w[t].scope], f)
                /\ f \in SentCallsOf(t, w[t].scope)

\* C25 for the desired states in which every vnet is bound to a listed zone.
C25_FailedItemRetriedWhenConsistent ==
    Consistent(pve) => C25_FailedItemRetried

\* One target whose calls can fail, with a worker that takes a step eventually.
InitRetry ==
    /\ daemon \in {"AFC", "PSM"}
    /\ cfgFile \in [Targets -> { sec \in Sections(daemon) :
                                   /\ sec.reserved_zone_names = <<>>
                                   /\ daemon = "AFC" => sec.fabric_names \in {<<>>, FabricX} }]
    /\ secret \in BOOLEAN
    /\ pve = [zones |-> {<<"a">>},
              vnets |-> <<[zone |-> <<"a">>, orchestratable |-> TRUE]>>]
    /\ afcFabrics \in {{}, {FabricX}}
    /\ fabric \in [Targets -> [ScopesOf(daemon) ->
                                 [vrfs : {{}, {<<"a", "b">>}}, vlans : {{2}}]]]
    /\ fails = 0
    /\ InitThreads(Targets, ScopesOf(daemon))

RetrySpec == InitRetry /\ [][Next]_vars /\ \A t \in Targets : WF_vars(WorkerStep(t))

\* The last call of the current cycle of t raised a RequestException.
LastCallFailed(t) == log[t] # <<>> /\ ~ log[t][Len(log[t])].ok

\* The worker of t is in its loop.
Cycling(t) == w[t].pc \notin {"none", "exit", "stopped", "killed"}

(* C26: with the target staying in the configuration and no cancellation, the  *)
(* worker never leaves its loop, and after a network call of a cycle failed    *)
(* with a timeout or transport error the worker comes to the head of the loop  *)
(* again and starts another cycle.                                             *)
C26_RecoverableFailures ==
    \A t \in Targets :
        /\ [](Cycling(t))
        /\ LastCallFailed(t) ~> (w[t].pc = "head")
        /\ (w[t].pc = "head") ~> (w[t].pc # "head" /\ log[t] = <<>>)

\* A create or delete failed in the cycle before the one that is running.
C26_Witness ==
    \E t \in Targets :
        /\ \E s \in DOMAIN prev[t] : prev[t][s].failed # {}
        /\ w[t].pc \notin {"head", "sleep"}
        /\ Cycling(t)

-----------------------------------------------------------------------------
(* A worker whose section is edited while it runs *)

PollValues == {<<>>, <<"5">>, <<"x">>}

\* The sections the administrator writes for a target of daemon d.
EditedSections(d) ==
    [type : {d}, enabled : {<<"0">>, <<"1">>},
     reserved_zone_names : {<<>>, <<"a">>},
     reserved_vlans : {<<>>},
     fabric_names : IF d = "AFC" THEN {<<>>, FabricX} ELSE {<<>>},
     poll_interval_seconds : PollValues]

\* The administrator rewrites the section of t, at any time.
EditSection(t) ==
    /\ t \in DOMAIN cfgFile
    /\ \E sec \in EditedSections(daemon) :
          /\ sec # cfgFile[t]
          /\ cfgFile' = [cfgFile EXCEPT ![t] = sec]
    /\ UNCHANGED <<daemon, secret, cfgPath, shape, pve, afcFabrics, fabric, w, log, fails, cyc, prev, sv>>

InitEdit ==
    /\ daemon \in {"AFC", "PSM"}
    /\ cfgFile \in [Targets -> EditedSections(daemon)]
    /\ secret \in BOOLEAN
    /\ pve = [zones |-> {<<"a">>},
              vnets |-> <<[zone |-> <<"a">>, orchestratable |-> TRUE]>>]
    /\ afcFabrics = {FabricX}
    /\ fabric \in [Targets -> [ScopesOf(daemon) ->
                                 [vrfs : {{}, {<<"a", "b">>}}, vlans : {{2}}]]]
    /\ fails = 0
    /\ InitThreads(Targets, ScopesOf(daemon))

EditNext == \E t \in Targets : WorkerStep(t) \/ EditSection(t)

EditSpec == InitEdit /\ [][EditNext]_vars

\* The cycle of t is between its start and its sleep.
InCycle(t) == w[t].pc \notin {"none", "head", "exit", "stopped", "killed"} /\ ~ w[t].first

\* What the cycle of t decides with is what the section read at its start says.
DecidesFromItsConfig(t) ==
    /\ w[t].dry_run = DryRun(w[t].cfg)
    /\ w[t].reserved_zones = reserved_zones_of(w[t].cfg)
    /\ w[t].reserved_vlans = reserved_vlans_of(w[t].cfg)
    /\ w[t].poll_interval = poll_interval_of(w[t].cfg)
    /\ daemon = "AFC" =>
          /\ SeqToSet(w[t].todo) \subseteq SeqToSet(fabric_list(w[t].cfg.fabric_names))
          /\ w[t].scope # <<>> => w[t].scope \in SeqToSet(fabric_list(w[t].cfg.fabric_names))
    /\ \A i \in DOMAIN log[t] :
          IsMutation(log[t][i]) => (log[t][i].sent <=> ~ DryRun(w[t].cfg))

(* C21: a step that starts a cycle takes the section of the target as the file *)
(* has it at that step; until the cycle ends its dry-run flag, reserved sets,  *)
(* fabric scopes, poll interval and every create or delete it sends or only    *)
(* reports follow that section, whatever is written to the file meanwhile; so  *)
(* a cycle that starts with enabled=0 in the file sends no mutating call.      *)
C21_ConfigurationPerCycle ==
    /\ [](\A t \in Targets : InCycle(t) => DecidesFromItsConfig(t))
    /\ [][\A t \in Targets :
            /\ (w[t].pc = "head" /\ w'[t].pc \notin {"head", "exit"})
                  => w'[t].cfg = parse_pve_config(cfgFile)[t]
            /\ (w[t].pc # "head" /\ ~ w[t].first) => w'[t].cfg = w[t].cfg]_vars

\* A cycle that was dry-run is followed, without a restart, by a live cycle that
\* has sent a create or delete, and the file is set to enabled=0 while this
\* live cycle runs.
C21_Witness ==
    \E t \in Targets :
        /\ InCycle(t)
        /\ cfgFile[t].enabled = <<"0">>
        /\ ~ w[t].dry_run
        /\ log[t] # <<>>
        /\ IsMutation(log[t][Len(log[t])]) /\ log[t][Len(log[t])].sent
        /\ \E s \in DOMAIN prev[t] : prev[t][s].planned /\ ~ prev[t][s].applied

\* The cycle of t that ended was aborted: it sent no create or delete and
\* reported none.
Aborted(t) == \A i \in DOMAIN log[t] : ~ IsMutation(log[t][i])

(* C28: a worker is at the head of its loop either at the start of its thread, *)
(* having slept nothing, or after exactly one sleep since the start of the     *)
(* cycle before, of the poll interval that cycle read from its section; and    *)
(* it sleeps nowhere else.                                                     *)
C28_OneSleepBetweenCycles ==
    \A t \in Targets :
        /\ w[t].pc = "head" =>
              IF w[t].first THEN w[t].slept = <<>>
              ELSE w[t].slept = <<poll_interval_of(w[t].cfg)>>
        /\ w[t].pc # "head" => w[t].slept = <<>>

\* A cycle aborted by a failed desired-state fetch has slept the 5 seconds it
\* read, while the file now gives another interval.
C28_Witness ==
    \E t \in Targets :
        /\ w[t].pc = "head" /\ ~ w[t].first
        /\ Aborted(t) /\ LastCallFailed(t)
        /\ w[t].slept = <<5>>
        /\ cfgFile[t].poll_interval_seconds # <<"5">>

-----------------------------------------------------------------------------
(* A worker whose servers answer with bodies of a wrong shape *)

InitShape ==
    /\ daemon \in {"AFC", "PSM"}
    /\ cfgFile \in [Targets -> { sec \in Sections(daemon) :
                                   /\ sec.reserved_zone_names = <<>>
                                   /\ sec.enabled # <<>> }]
    /\ secret = TRUE
    /\ cfgPath = "present"
    /\ shape \in Shapes
    /\ pve = [zones |-> {<<"a">>},
              vnets |-> <<[zone |-> <<"a">>, orchestratable |-> TRUE]>>]
    /\ afcFabrics = {FabricX}
    /\ fabric \in [Targets -> [ScopesOf(daemon) ->
                                 [vrfs : {{}, {<<"a", "b">>}}, vlans : {{2}}]]]
    /\ fails \in {0, MaxFailures}
    /\ w = [t \in Targets |-> W0]
    /\ log = [t \in Targets |-> <<>>]
    /\ cyc = [t \in Targets |-> [s \in ScopesOf(daemon) |-> NoPlan]]
    /\ prev = [t \in Targets |-> [s \in ScopesOf(daemon) |-> NoPrev]]
    /\ stop_event = FALSE
    /\ sup = Sup0
    /\ threads = [t \in Targets |-> "cur"]
    /\ nlive = [t \in Targets |-> 1]

ShapeNext == \E t \in Targets : WorkerStep(t) \/ ThreadRaises(t)

ShapeSpec == InitShape /\ [][ShapeNext]_vars /\ \A t \in Targets : WF_vars(WorkerStep(t))

\* The request op of the current cycle of t was answered.
Answered(t, op) == \E i \in DOMAIN log[t] : log[t][i].op = op /\ log[t][i].ok

\* A fetch of the current cycle of t was answered with a body of a wrong shape.
MalformedFetch(t) ==
    \/ shape \in {"no_data", "bad_tag"} /\ Answered(t, "get_vnets")
    \/ shape = "no_uuid" /\ Answered(t, "lookup")
    \/ shape \in {"no_result", "no_name"} /\ Answered(t, "get_state")

(* C27: when a fetch of a cycle (desired state, scope lookup, actual state)    *)
(* was answered with a body of a wrong shape, the cycle neither sends nor      *)
(* reports a create or delete, and the worker thread stays in its loop.        *)
C27_MalformedResponseIsFetchFailure ==
    \A t \in Targets :
        MalformedFetch(t) =>
            /\ \A i \in DOMAIN log[t] : ~ IsMutation(log[t][i])
            /\ w[t].pc \notin {"raised", "exit", "stopped"}

\* The part of C27 that is about the thread: it stays in its loop.
C27_WorkerStaysAlive ==
    \A t \in Targets : MalformedFetch(t) => w[t].pc \notin {"raised", "exit", "stopped"}

\* The part of C27 that is about the calls: none is sent or reported.
C27_NoMutatingCall ==
    \A t \in Targets : MalformedFetch(t) => \A i \in DOMAIN log[t] : ~ IsMutation(log[t][i])

-----------------------------------------------------------------------------
(* The process: main, one target, and what happens to the configuration file *)

\* The administrator rewrites the section of t with the type of the other daemon ...
RetypeSection(t) ==
    /\ t \in DOMAIN cfgFile
    /\ cfgFile' = [cfgFile EXCEPT ![t].type = IF PyUpper(@) = "AFC" THEN "psm" ELSE "afc"]
    /\ UNCHANGED <<daemon, secret, cfgPath, shape, pve, afcFabrics, fabric, w, log, fails, cyc, prev, sv>>

\* ... or with an 'enabled' value that is no number.
SpoilSection(t) ==
    /\ t \in DOMAIN cfgFile
    /\ cfgFile[t].enabled # <<"x">>
    /\ cfgFile' = [cfgFile EXCEPT ![t].enabled = <<"x">>]
    /\ UNCHANGED <<daemon, secret, cfgPath, shape, pve, afcFabrics, fabric, w, log, fails, cyc, prev, sv>>

\* The file is deleted, or its permissions are taken away.
LoseFile ==
    /\ cfgPath = "present"
    /\ cfgPath' \in {"missing", "unreadable"}
    /\ UNCHANGED <<daemon, cfgFile, secret, shape, pve, afcFabrics, fabric, w, log, fails, cyc, prev, sv>>

ProcNext ==
    \/ \E t \in DOMAIN w : ThreadStep(t) \/ ThreadRaises(t)
    \/ SupStep
    \/ Interrupt
    \/ \E ty \in {"afc", "psm"} : AddSection("t1", ty)
    \/ RemoveSection("t1")
    \/ RetypeSection("t1")
    \/ SpoilSection("t1")
    \/ LoseFile

ProcSpec ==
    /\ InitSup /\ [][ProcNext]_vars
    /\ WF_vars(SupStep)
    /\ \A t \in TwoTargets : WF_vars(ThreadStep(t) \/ ThreadRaises(t))

\* The process has ended or is ending.
Terminated == sup.pc \in {"fatal", "returned", "exited"}

(* C22: the process ends only after an interrupt or when the configuration     *)
(* file cannot be opened; a bad value in the section of one target does not    *)
(* end it.                                                                     *)
C22_ProcessSurvivesTargetFailures ==
    Terminated => (stop_event \/ cfgPath # "present")

(* C23: a tick of main that reads the configuration while the file is missing  *)
(* or unreadable ends the process with exit code 1; main does not go on with   *)
(* an empty target set.                                                        *)
C23_MissingFileIsFatal ==
    [][(sup.pc = "tick" /\ sup'.pc \notin {"tick", "handler"} /\ cfgPath # "present")
          => (sup'.pc = "fatal" /\ sup'.code = 1)]_vars

(* C30: a worker that has made a call in a cycle read, at the start of that    *)
(* cycle, a section whose type is the type of its daemon.                      *)
C30_OwnTypeOnly ==
    \A t \in TwoTargets :
        (InCycle(t) /\ log[t] # <<>>) => PyUpper(w[t].cfg.type) = daemon

-----------------------------------------------------------------------------
\* The call e is for a resource that the state P.vrfs, P.vlans fetched for its
\* scope has (a delete) or lacks (a create).
MatchesFetched(P, e) ==
    CASE e.op = "delete_vrf"  -> e.name \in P.vrfs
      [] e.op = "delete_vlan" -> e.tag \in P.vlans
      [] e.op = "create_vrf"  -> e.name \notin P.vrfs
      [] e.op = "create_vlan" -> e.tag \notin P.vlans

\* The calls d and c of one scope delete and create the same resource.
SameResource(d, c) ==
    /\ d.scope = c.scope
    /\ \/ d.op = "delete_vrf" /\ c.op = "create_vrf" /\ d.name = c.name
       \/ d.op = "delete_vlan" /\ c.op = "create_vlan" /\ d.tag = c.tag

(* C31: every create or delete a cycle sends or reports in a scope matches the *)
(* actual state the cycle fetched for that scope: a delete is for a routing    *)
(* domain or network the fetched state has, a create for one it lacks; and no  *)
(* cycle both creates and deletes one resource.                                *)
C31_MutationsMatchFetchedState ==
    \A t \in DOMAIN w :
        /\ \A i \in DOMAIN log[t] :
              IsMutation(log[t][i]) =>
                  /\ cyc[t][log[t][i].scope].planned
                  /\ MatchesFetched(cyc[t][log[t][i].scope], log[t][i])
        /\ \A i, j \in DOMAIN log[t] : ~ SameResource(log[t][i], log[t][j])
        /\ \A s \in DOMAIN cyc[t] :
              /\ cyc[t][s].zc \cap cyc[t][s].zd = {}
              /\ cyc[t][s].vc \cap cyc[t][s].vd = {}

\* A live cycle has sent a delete and a create of each kind in one scope.
C31_Witness ==
    \E t \in DOMAIN w :
        /\ ScopeFinished(t) /\ ~ w[t].dry_run
        /\ \A op \in MutatingOps :
              \E i \in DOMAIN log[t] :
                  log[t][i].op = op /\ log[t][i].sent /\ log[t][i].scope = w[t].scope

-----------------------------------------------------------------------------
\* The place in the log of t of the failed re-fetch of scope s.
FailedRefetchAt(t, s) ==
    { i \in DOMAIN log[t] :
        log[t][i].op = "refetch" /\ log[t][i].scope = s /\ ~ log[t][i].ok }

\* What the calls of scope s that were sent and succeeded before the place k
\* of the log of t changed is still so in the controller.
NotRolledBack(t, s, k) ==
    \A i \in 1..(k - 1) :
        (log[t][i].scope = s /\ log[t][i].sent /\ log[t][i].ok) =>
            CASE log[t][i].op = "create_vrf"  -> log[t][i].name \in fabric[t][s].vrfs
              [] log[t][i].op = "delete_vrf"  -> log[t][i].name \notin fabric[t][s].vrfs
              [] log[t][i].op = "delete_vlan" -> log[t][i].tag \notin fabric[t][s].vlans
              [] OTHER -> TRUE

(* C32: in the AFC worker, when the re-fetch of the routing domains of a scope *)
(* fails, the re-fetch is the last call of the cycle for that scope, so no     *)
(* network creation is attempted in it and nothing undoes the deletes and the  *)
(* routing-domain creates already applied; and the cycle, when it ends, has    *)
(* fetched the state of every configured scope.                                *)
C32_RefetchFailureIsolation ==
    \A t \in DOMAIN w :
        \A s \in DOMAIN cyc[t] :
            \A k \in FailedRefetchAt(t, s) :
                /\ \A i \in DOMAIN log[t] :
                      log[t][i].scope = s =>
                          /\ i <= k
                          /\ log[t][i].op # "create_vlan"
                /\ \E i \in 1..(k - 1) :
                      log[t][i].scope = s /\ log[t][i].op = "create_vrf" /\ log[t][i].sent
                /\ NotRolledBack(t, s, k)
                /\ CycleEnded(t) =>
                      \A s2 \in ConfiguredScopes(t) : Attempts(t, s2, "get_state", <<>>, 0) = 1

\* A cycle of two fabrics has ended: the re-fetch of the first failed after a
\* routing domain was created and a network creation was planned there, and a
\* create or delete of the second fabric was sent after it.
C32_Witness ==
    \E t \in DOMAIN w :
        /\ CycleEnded(t)
        /\ \E s1, s2 \in ConfiguredScopes(t) :
              /\ s1 # s2
              /\ cyc[t][s1].vc # {}
              /\ \E k \in FailedRefetchAt(t, s1) :
                    /\ \E i \in 1..(k - 1) :
                          /\ log[t][i].scope = s1 /\ log[t][i].op = "create_vrf"
                          /\ log[t][i].sent /\ log[t][i].ok
                    /\ \E j \in DOMAIN log[t] :
                          /\ j > k /\ log[t][j].scope = s2
                          /\ IsMutation(log[t][j]) /\ log[t][j].sent

====
